---- MODULE Spec2Model ----
(***************************************************************************)
(* A model of BrowserMate-AI's search engine (src/src/lib/indexer.ts)      *)
(* and of the storage it persists to (src/src/lib/storage.ts).             *)
(*                                                                         *)
(* Strings are sequences of characters.  An ASCII character is the         *)
(* one-character string that holds it; a CJK character is an atom named    *)
(* by its code point ("U4E66" is U+4E66).  Timestamps count days.          *)
(***************************************************************************)
EXTENDS Integers, Sequences, FiniteSets, TLC

(***************************************************************************)
(* Characters and the string operations of JavaScript the engine uses.     *)
(***************************************************************************)
UpperLetters == <<"A","B","C","D","E","F","G","H","I","J","K","L","M",
                  "N","O","P","Q","R","S","T","U","V","W","X","Y","Z">>

LowerLetters == <<"a","b","c","d","e","f","g","h","i","j","k","l","m",
                  "n","o","p","q","r","s","t","u","v","w","x","y","z">>

Digits == {"0","1","2","3","4","5","6","7","8","9"}

Range(s) == {s[i] : i \in DOMAIN s}

\* Op(v), with v evaluated once.
Bind(v, Op(_)) == CHOOSE r \in {Op(x) : x \in {v}} : TRUE

\* The characters of the range U+4E00..U+9FFF that occur in the engine's patterns or in
\* the documents and queries of this model.
CJKChars ==
    {"U6211","U7684","U6709","U4EC0","U4E48","U663E","U793A","U6240","U5217",
     "U51FA","U4E66","U7B7E","U5386","U53F2","U6D4F","U89C8","U8BB0","U5F55",
     "U9605","U8BFB","U6E05","U5355","U8868","U67E5","U627E","U732B","U72D7"}

IsCJK(c) == c \in CJKChars

IsAsciiLetter(c) == c \in Range(UpperLetters) \cup Range(LowerLetters)

\* \w of a JavaScript regular expression without the u flag.
IsWordChar(c) == IsAsciiLetter(c) \/ c \in Digits \/ c = "_"

\* \s, and what String.prototype.trim strips.
IsSpace(c) == c \in {" ", "\t"}

LowerChar(c) ==
    IF c \in Range(UpperLetters)
    THEN LowerLetters[CHOOSE i \in DOMAIN UpperLetters : UpperLetters[i] = c]
    ELSE c

\* String.prototype.toLowerCase
Lower(s) == [i \in DOMAIN s |-> LowerChar(s[i])]

\* String.prototype.trim
Trim(s) ==
    LET keep == {i \in DOMAIN s : ~IsSpace(s[i])}
    IN  IF keep = {} THEN <<>>
        ELSE LET lo == CHOOSE i \in keep : \A j \in keep : i <= j
                 hi == CHOOSE i \in keep : \A j \in keep : j <= i
             IN  SubSeq(s, lo, hi)

\* Whether w occurs in s at position i.
StartsWithAt(s, i, w) ==
    /\ i >= 1
    /\ i + Len(w) - 1 <= Len(s)
    /\ \A k \in 1..Len(w) : s[i + k - 1] = w[k]

\* String.prototype.includes; also an unanchored literal pattern's test.
Contains(s, w) == \E i \in 1..(Len(s) + 1) : StartsWithAt(s, i, w)

\* The test of the pattern  a.*b
ContainsThen(s, a, b) ==
    \E i \in 1..(Len(s) + 1) :
        /\ StartsWithAt(s, i, a)
        /\ \E j \in (i + Len(a))..(Len(s) + 1) : StartsWithAt(s, j, b)

\* The test of the pattern  a.*b.*c
ContainsThen3(s, a, b, c) ==
    \E i \in 1..(Len(s) + 1) :
        /\ StartsWithAt(s, i, a)
        /\ \E j \in (i + Len(a))..(Len(s) + 1) :
              /\ StartsWithAt(s, j, b)
              /\ \E k \in (j + Len(b))..(Len(s) + 1) : StartsWithAt(s, k, c)

\* The test of the pattern  a.?b
ContainsOpt(s, a, b) ==
    \E i \in 1..(Len(s) + 1) :
        /\ StartsWithAt(s, i, a)
        /\ \/ StartsWithAt(s, i + Len(a), b)
           \/ (i + Len(a) <= Len(s) /\ StartsWithAt(s, i + Len(a) + 1, b))

\* The character classes the engine and the text index split strings by.
InClass(c, cls) ==
    CASE cls = "nonspace" -> ~IsSpace(c)
      [] cls = "cjk"      -> IsCJK(c)
      [] cls = "latin"    -> IsAsciiLetter(c)
      [] cls = "token"    -> IsAsciiLetter(c) \/ c \in Digits \/ IsCJK(c)

\* The maximal runs of characters of class cls in s, in order: what
\* s.match(/[cls]+/g) returns, and s.split(/[^cls]+/) without its empty strings.
Runs(s, cls) ==
    Bind(s, LAMBDA x :
        LET starts == {i \in DOMAIN x :
                          InClass(x[i], cls) /\ (i = 1 \/ ~InClass(x[i - 1], cls))}
            ends   == {i \in DOMAIN x :
                          InClass(x[i], cls) /\ (i = Len(x) \/ ~InClass(x[i + 1], cls))}
            nth(set, n) == CHOOSE a \in set : Cardinality({b \in set : b < a}) = n - 1
        IN  [n \in 1..Cardinality(starts) |-> SubSeq(x, nth(starts, n), nth(ends, n))])

\* The elements of s at the positions in keep, in order.
RECURSIVE SelectFrom(_, _, _)
SelectFrom(s, keep, i) ==
    IF i > Len(s) THEN <<>>
    ELSE (IF i \in keep THEN <<s[i]>> ELSE <<>>) \o SelectFrom(s, keep, i + 1)

SelectSeqIdx(s, keep) ==
    Bind(s, LAMBDA x : Bind(keep, LAMBDA k : SelectFrom(x, k, 1)))

\* Array.from(new Set(s)): the elements of s in first-seen order.
Dedup(s) ==
    Bind(s, LAMBDA x :
        SelectSeqIdx(x, {i \in DOMAIN x : \A j \in 1..(i - 1) : x[j] # x[i]}))

Min(a, b) == IF a <= b THEN a ELSE b

\* Array.prototype.slice(0, n)
Take(s, n) == Bind(s, LAMBDA x : SubSeq(x, 1, Min(n, Len(x))))

RECURSIVE FlattenFrom(_, _)
FlattenFrom(ss, i) == IF i > Len(ss) THEN <<>> ELSE ss[i] \o FlattenFrom(ss, i + 1)

Flatten(ss) == Bind(ss, LAMBDA x : FlattenFrom(x, 1))

\* Array.prototype.sort with comparator (a, b) => key(b) - key(a) on a sequence
\* of [k |-> key, v |-> element] pairs: stable, descending by key.  An element
\* comes after those of greater key and those of equal key that precede it.
SortRank(s, j) ==
    1 + Cardinality({i \in DOMAIN s : s[i].k > s[j].k \/ (s[i].k = s[j].k /\ i < j)})

SortDesc(s) ==
    Bind(s, LAMBDA x :
        [r \in DOMAIN x |-> x[CHOOSE j \in DOMAIN x : SortRank(x, j) = r]])

(***************************************************************************)
(* Words of the engine's patterns.                                         *)
(***************************************************************************)
Word ==
    [list |-> <<"l","i","s","t">>,
     show |-> <<"s","h","o","w">>,
     display |-> <<"d","i","s","p","l","a","y">>,
     what |-> <<"w","h","a","t">>,
     do |-> <<"d","o">>,
     have |-> <<"h","a","v","e">>,
     find |-> <<"f","i","n","d">>,
     get |-> <<"g","e","t">>,
     my |-> <<"m","y">>,
     the |-> <<"t","h","e">>,
     a |-> <<"a">>,
     an |-> <<"a","n">>,
     bookmark |-> <<"b","o","o","k","m","a","r","k">>,
     history |-> <<"h","i","s","t","o","r","y">>,
     reading |-> <<"r","e","a","d","i","n","g">>,
     wode |-> <<"U6211","U7684">>,                            \* "my"
     youshenme |-> <<"U6709","U4EC0","U4E48">>,               \* "have what"
     xianshi |-> <<"U663E","U793A">>,                         \* "show"
     suoyou |-> <<"U6240","U6709">>,                          \* "all"
     liechu |-> <<"U5217","U51FA">>,                          \* "list"
     shuqian |-> <<"U4E66","U7B7E">>,                         \* "bookmark"
     lishi |-> <<"U5386","U53F2">>,                           \* "history"
     liulanjilu |-> <<"U6D4F","U89C8","U8BB0","U5F55">>,      \* "browsing record"
     yueduqingdan |-> <<"U9605","U8BFB","U6E05","U5355">>,    \* "reading list"
     yueduliebiao |-> <<"U9605","U8BFB","U5217","U8868">>,    \* "reading list"
     chazhao |-> <<"U67E5","U627E">>]                         \* "find"

(***************************************************************************)
(* The text index (FlexSearch.Index with tokenize: 'forward'), by its      *)
(* documented behaviour: a register of (id, content) in insertion order.   *)
(***************************************************************************)
NewIndex == <<>>

IndexIds(ix) == {ix[i].id : i \in DOMAIN ix}

\* A remove that drops the oldest entry when the id has none.
IndexRemoveSome(ix, id) ==
    IF \E i \in DOMAIN ix : ix[i].id = id
    THEN SelectSeq(ix, LAMBDA e : e.id # id)
    ELSE SubSeq(ix, 2, Len(ix))

\* A remove that leaves the id registered.
IndexRemoveNothing(ix, id) == ix

\* Index.remove(id)
IndexRemove(ix, id) == SelectSeqIdx(ix, {i \in DOMAIN ix : ix[i].id # id})

\* Index.add(id, content): nothing for empty content; an id already
\* registered is updated, that is removed and added again.
IndexAdd(ix, id, content) ==
    IF content = <<>> THEN ix
    ELSE Append(IndexRemove(ix, id), [id |-> id, content |-> content])

\* The default encoder: lower case, split at separators and punctuation.
Encode(str) == Runs(Lower(str), "token")

\* A match of whole tokens only.
IsWholeToken(p, w) == p = w

IsPrefix(p, w) == StartsWithAt(w, 1, p)

\* Forward tokenization: every token of the term is a prefix of a token
\* of the content.
TokensMatch(ct, qt) ==
    /\ qt # <<>>
    /\ \A i \in DOMAIN qt : \E j \in DOMAIN ct : IsPrefix(qt[i], ct[j])

TermMatches(content, term) ==
    \E ct \in {Encode(content)}, qt \in {Encode(term)} : TokensMatch(ct, qt)

\* Index.search(term, {limit})
IndexSearch(ix, term, limit) ==
    Bind(Encode(term), LAMBDA qt :
        Bind(SelectSeqIdx(ix, {i \in DOMAIN ix :
                                \E ct \in {Encode(ix[i].content)} : TokensMatch(ct, qt)}),
             LAMBDA hit : Take([i \in DOMAIN hit |-> hit[i].id], limit)))

(***************************************************************************)
(* The document map (a Map: insertion order, one entry per id).            *)
(***************************************************************************)
ItemIds(items) == {items[i].id : i \in DOMAIN items}

ItemsHas(items, id) == id \in ItemIds(items)

ItemsGet(items, id) == items[CHOOSE i \in DOMAIN items : items[i].id = id]

\* Map.set: an existing key keeps its place.
ItemsSet(items, item) ==
    IF ItemsHas(items, item.id)
    THEN [i \in DOMAIN items |-> IF items[i].id = item.id THEN item ELSE items[i]]
    ELSE Append(items, item)

\* A delete that leaves the map as it is.
ItemsDeleteNothing(items, id) == items

\* Map.delete
ItemsDelete(items, id) == SelectSeqIdx(items, {i \in DOMAIN items : items[i].id # id})

(***************************************************************************)
(* SearchIndexer.search: query classification, term extraction, scoring.   *)
(***************************************************************************)
\* Date.now(), in days.
Now == 100

\* listAllPatterns.some(pattern => pattern.test(query)); the patterns carry
\* the i flag.
IsListAllQuery(query) ==
    \E q \in {Lower(query)} :
        \/ Contains(q, Word.list) \/ Contains(q, Word.show) \/ Contains(q, Word.display)
        \/ ContainsThen3(q, Word.what, Word.do, Word.have)
        \/ ContainsThen(q, Word.wode, Word.youshenme)
        \/ ContainsThen(q, Word.xianshi, Word.suoyou)
        \/ Contains(q, Word.liechu)
        \/ Contains(q, Word.bookmark) \/ Contains(q, Word.shuqian)
        \/ Contains(q, Word.history) \/ Contains(q, Word.lishi) \/ Contains(q, Word.liulanjilu)
        \/ ContainsOpt(q, Word.reading, Word.list)
        \/ Contains(q, Word.yueduqingdan) \/ Contains(q, Word.yueduliebiao)

WantBookmarks(query) ==
    \E q \in {Lower(query)} : Contains(q, Word.bookmark) \/ Contains(q, Word.shuqian)

WantHistory(query) ==
    \E q \in {Lower(query)} :
        Contains(q, Word.history) \/ Contains(q, Word.lishi) \/ Contains(q, Word.liulanjilu)

WantReadingList(query) ==
    \E q \in {Lower(query)} :
        \/ ContainsOpt(q, Word.reading, Word.list)
        \/ Contains(q, Word.yueduqingdan) \/ Contains(q, Word.yueduliebiao)

\* A list of types that ignores what the query names.
IncludeEveryType(query) == {"bookmark", "history", "reading-list"}

IncludeTypes(query) ==
    LET none == ~WantBookmarks(query) /\ ~WantHistory(query) /\ ~WantReadingList(query)
    IN  (IF WantBookmarks(query) \/ none THEN {"bookmark"} ELSE {})
        \cup (IF WantHistory(query) \/ none THEN {"history"} ELSE {})
        \cup (IF WantReadingList(query) \/ none THEN {"reading-list"} ELSE {})

\* A list-all branch that gives every result the same relevance.
ListAllResultsFlat(items, query, maxResults) ==
    Bind(IncludeTypes(query), LAMBDA types :
    Bind(SelectSeqIdx(items, {i \in DOMAIN items : items[i].type \in types}), LAMBDA sel :
    Bind(Take(SortDesc([i \in DOMAIN sel |-> [k |-> sel[i].timestamp, v |-> sel[i]]]),
              maxResults), LAMBDA cut :
        [i \in DOMAIN cut |-> [item |-> cut[i].v, score2 |-> 20, pos |-> 0]])))

\* The list-all branch: items of the wanted types, newest first, cut to
\* maxResults; score 10 (held doubled), relevance (maxResults - index) / maxResults.
ListAllResults(items, query, maxResults) ==
    Bind(IncludeTypes(query), LAMBDA types :
    Bind(SelectSeqIdx(items, {i \in DOMAIN items : items[i].type \in types}), LAMBDA sel :
    Bind(Take(SortDesc([i \in DOMAIN sel |-> [k |-> sel[i].timestamp, v |-> sel[i]]]),
              maxResults), LAMBDA cut :
        [i \in DOMAIN cut |-> [item |-> cut[i].v, score2 |-> 20, pos |-> i - 1]])))

\* The alternatives of /\b(list|show|find|get|my|the|a|an|...)\b/g, in order.
StopWords == <<Word.list, Word.show, Word.find, Word.get, Word.my, Word.the, Word.a, Word.an,
               Word.wode, Word.xianshi, Word.liechu, Word.chazhao>>

WordAt(s, j) == j \in DOMAIN s /\ IsWordChar(s[j])

\* \b between s[k-1] and s[k]
Boundary(s, k) == WordAt(s, k - 1) # WordAt(s, k)

StopWordsAt(s, i) ==
    {w \in DOMAIN StopWords :
        /\ StartsWithAt(s, i, StopWords[w])
        /\ Boundary(s, i)
        /\ Boundary(s, i + Len(StopWords[w]))}

\* s.replace(/\b(...)\b/g, '')
RECURSIVE StripFrom(_, _)
StripFrom(s, i) ==
    IF i > Len(s) THEN <<>>
    ELSE IF StopWordsAt(s, i) # {}
    THEN LET w == CHOOSE w \in StopWordsAt(s, i) : \A v \in StopWordsAt(s, i) : w <= v
         IN  StripFrom(s, i + Len(StopWords[w]))
    ELSE <<s[i]>> \o StripFrom(s, i + 1)

CleanQuery(query) ==
    Bind(Lower(query), LAMBDA q : Bind(StripFrom(q, 1), LAMBDA x : Trim(x)))

HasCJK(s) == \E i \in DOMAIN s : IsCJK(s[i])

\* The search terms of the cleaned query.
SearchTerms(cleanQuery) ==
    IF HasCJK(cleanQuery)
    THEN Runs(cleanQuery, "cjk") \o Runs(cleanQuery, "latin")
    ELSE Bind(Runs(cleanQuery, "nonspace"), LAMBDA ws :
            SelectSeqIdx(ws, {i \in DOMAIN ws : Len(ws[i]) > 2}))

\* The per-term results, concatenated, without duplicates.
RawMatches(ix, terms, maxResults) ==
    Bind(terms, LAMBDA ts :
        Dedup(Flatten([i \in DOMAIN ts |-> IndexSearch(ix, ts[i], maxResults * 2)])))

\* A score that compares the strings as they are.
Score2CaseSensitive(query, item) ==
    (IF item.title = query THEN 20 ELSE 0)
    + (IF Contains(item.title, query) THEN 10 ELSE 0)
    + (IF Contains(item.content, query) THEN 4 ELSE 0)
    + (IF Now - item.timestamp < 30 THEN 2 ELSE 0)
    + (IF item.type = "bookmark" THEN 1 ELSE 0)

\* calculateRelevanceScore, doubled (the bookmark boost is 0.5).
Score2(query, item) ==
    Bind(<<Lower(query), Lower(item.title), Lower(item.content)>>, LAMBDA l :
        (IF l[2] = l[1] THEN 20 ELSE 0)
        + (IF Contains(l[2], l[1]) THEN 10 ELSE 0)
        + (IF Contains(l[3], l[1]) THEN 4 ELSE 0)
        + (IF Now - item.timestamp < 30 THEN 2 ELSE 0)
        + (IF item.type = "bookmark" THEN 1 ELSE 0))

\* (score + relevance) * 2 * maxResults, with relevance = (maxResults - pos) / maxResults
RankKey(r, maxResults) == r.score2 * maxResults + 2 * (maxResults - r.pos)

\* How many raw matches the scoring loop visits.
ScoredCount(raw, maxResults) == Min(Len(raw), maxResults)

\* The keyword branch.
\* The scoring loop: the raw matches it visits that have a document, scored.
ScoredResults(items, cleanQuery, raw, maxResults) ==
    Bind(ScoredCount(raw, maxResults), LAMBDA n :
    Bind(SelectSeqIdx([i \in 1..n |-> i], {i \in 1..n : ItemsHas(items, raw[i])}),
         LAMBDA found :
        [j \in DOMAIN found |->
            Bind(ItemsGet(items, raw[found[j]]), LAMBDA item :
                [item |-> item, score2 |-> Score2(cleanQuery, item),
                 pos |-> found[j] - 1])]))

\* results.sort((a, b) => (b.score + b.relevance) - (a.score + a.relevance))
SortResults(res, maxResults) ==
    Bind(SortDesc([j \in DOMAIN res |-> [k |-> RankKey(res[j], maxResults), v |-> res[j]]]),
         LAMBDA srt : [j \in DOMAIN srt |-> srt[j].v])

\* The keyword branch.
KeywordResults(items, ix, query, maxResults) ==
    Bind(CleanQuery(query), LAMBDA cleanQuery :
    Bind(RawMatches(ix, SearchTerms(cleanQuery), maxResults), LAMBDA raw :
    Bind(ScoredResults(items, cleanQuery, raw, maxResults), LAMBDA res :
        SortResults(res, maxResults))))

\* A catch block that lets the error through.
SearchRethrow == [threw |-> TRUE, results |-> <<>>]

\* What the catch block of search does with an error raised in the try block.
SearchCatch == [threw |-> FALSE, results |-> <<>>]

\* search after its lazy initialization; fails says that the try block
\* raises (the text index or a malformed item throws).
SearchBody(items, ix, query, maxResults, fails) ==
    IF Trim(query) = <<>> THEN [threw |-> FALSE, results |-> <<>>]
    ELSE IF Len(items) = 0 THEN [threw |-> FALSE, results |-> <<>>]
    ELSE IF fails THEN SearchCatch
    ELSE IF IsListAllQuery(query)
    THEN [threw |-> FALSE, results |-> ListAllResults(items, query, maxResults)]
    ELSE [threw |-> FALSE, results |-> KeywordResults(items, ix, query, maxResults)]

ResultIds(results) == [i \in DOMAIN results |-> results[i].item.id]

(***************************************************************************)
(* Normalization of the raw source collections (convert*ToIndexedItems).   *)
(***************************************************************************)
SnippetMax == 200

S_Untitled == <<"U","n","t","i","t","l","e","d">>

\* generateSnippet(content, maxLength = 200)
GenerateSnippet(content) ==
    IF Len(content) <= SnippetMax THEN content
    ELSE Trim(SubSeq(content, 1, SnippetMax)) \o <<".", ".", ".">>

\* `${title} ${url}`.trim()
JoinContent(title, url) == Trim(title \o <<" ">> \o url)

\* x || fallback, for a string or a number (an absent field is held as the
\* empty string or 0).
OrElse(x, empty, fallback) == IF x = empty THEN fallback ELSE x

BookmarkItemOf(b) ==
    [id        |-> <<"bookmark_", b.id>>,
     title     |-> OrElse(b.title, <<>>, S_Untitled),
     url       |-> b.url,
     content   |-> JoinContent(b.title, b.url),
     type      |-> "bookmark",
     timestamp |-> OrElse(b.dateAdded, 0, Now),
     snippet   |-> GenerateSnippet(JoinContent(b.title, b.url))]

\* processBookmark: the node when it has a url, then its children.
RECURSIVE ProcessBookmark(_)
ProcessBookmark(b) ==
    (IF b.url # <<>> THEN <<BookmarkItemOf(b)>> ELSE <<>>)
    \o Flatten([i \in DOMAIN b.children |-> ProcessBookmark(b.children[i])])

ConvertBookmarks(bookmarks) ==
    Flatten([i \in DOMAIN bookmarks |-> ProcessBookmark(bookmarks[i])])

ConvertHistory(history) ==
    LET kept == SelectSeqIdx(history,
                    {i \in DOMAIN history : history[i].url # <<>> /\ history[i].title # <<>>})
    IN  [i \in DOMAIN kept |->
            [id        |-> <<"history_", kept[i].id>>,
             title     |-> OrElse(kept[i].title, <<>>, S_Untitled),
             url       |-> kept[i].url,
             content   |-> JoinContent(kept[i].title, kept[i].url),
             type      |-> "history",
             timestamp |-> OrElse(kept[i].lastVisitTime, 0, Now),
             snippet   |-> GenerateSnippet(JoinContent(kept[i].title, kept[i].url))]]

ConvertReadingList(readingList) ==
    [i \in DOMAIN readingList |->
        [id        |-> <<"reading_", readingList[i].url>>,
         title     |-> readingList[i].title,
         url       |-> readingList[i].url,
         content   |-> JoinContent(readingList[i].title, readingList[i].url),
         type      |-> "reading-list",
         timestamp |-> readingList[i].creationTime,
         snippet   |-> GenerateSnippet(JoinContent(readingList[i].title, readingList[i].url))]]

\* The indexedItems list of rebuildIndex.
ConvertAll(srcs) ==
    ConvertBookmarks(srcs.bookmarks) \o ConvertHistory(srcs.history)
        \o ConvertReadingList(srcs.readingList)

(***************************************************************************)
(* The documents, raw collections and queries of the model.                *)
(***************************************************************************)
Str ==
    [Cat |-> <<"C","a","t">>, cat |-> <<"c","a","t">>, cats |-> <<"c","a","t","s">>,
     cow |-> <<"c","o","w">>, Dog |-> <<"D","o","g">>, blank |-> <<" ", " ">>,
     u1 |-> <<"a",".","i","o">>, u2 |-> <<"b",".","i","o">>,
     u3 |-> <<"c",".","i","o">>, u4 |-> <<"d",".","i","o">>]

\* A bookmark in a folder, two history entries (one untitled), a reading-list
\* entry.
Raw ==
    [folder |-> [id |-> "0", title |-> <<"F">>, url |-> <<>>, dateAdded |-> 0,
                 children |-> <<[id |-> "1", title |-> Str.Cat, url |-> Str.u1,
                                 dateAdded |-> 90, children |-> <<>>]>>],
     h2 |-> [id |-> "2", title |-> Str.cats, url |-> Str.u2, lastVisitTime |-> 10],
     h3 |-> [id |-> "3", title |-> <<>>, url |-> Str.u3, lastVisitTime |-> 95],
     r1 |-> [title |-> Str.Dog, url |-> Str.u3, creationTime |-> 80]]

SrcEmpty == [bookmarks |-> <<>>, history |-> <<>>, readingList |-> <<>>]
SrcX == [bookmarks |-> <<Raw.folder>>, history |-> <<Raw.h2, Raw.h3>>, readingList |-> <<>>]
SrcY == [bookmarks |-> <<>>, history |-> <<Raw.h2>>, readingList |-> <<Raw.r1>>]

\* What the browser's providers may hold at a sync.
SourceSets == {SrcEmpty, SrcX, SrcY}

N1  == [id |-> <<"test-", "1">>, title |-> Str.cat, url |-> Str.u4,
        content |-> JoinContent(Str.cat, Str.u4), type |-> "bookmark",
        timestamp |-> 95, snippet |-> <<>>]
\* Another version of the same document.
N1b == [id |-> <<"test-", "1">>, title |-> Str.cow, url |-> Str.u4,
        content |-> JoinContent(Str.cow, Str.u4), type |-> "history",
        timestamp |-> 20, snippet |-> <<>>]

AddItems == {N1, N1b}

RemoveIds == {N1.id, <<"history_", "2">>}

Queries == {Str.blank, Str.cat}

Limits == {1, 2}

\* How many documents the persisted collection may hold when addItem is called.
MaxStored == 3

Tasks == {1, 2}

\* How many calls and syncs a behaviour with interleaved calls makes.
MaxCalls == 2

(***************************************************************************)
(* State.                                                                  *)
(***************************************************************************)
VARIABLES
    index,           \* SearchIndexer.index
    items,           \* SearchIndexer.items
    isInitialized,   \* SearchIndexer.isInitialized
    stSources,       \* storage: browsermate_bookmarks, _history, _reading_list
    stIndexedItems,  \* storage: browsermate_indexed_items
    stSearchIndex,   \* storage: browsermate_search_index
    tasks,           \* the calls in flight, each at one of its awaits
    initRuns,        \* history: how many times initialize loaded and replayed
    last,            \* history: the search or getStats that has just returned
    hist,            \* history: the last two modifying calls that returned
    calls,           \* history: how many calls were made, where they are bounded
    mode,            \* "conc": calls interleave; "seq": one call at a time;
                     \* "both": calls interleave and hist is kept
    local,           \* chrome.storage.local as StorageManager reads and writes it,
                     \* key by key: <<>> for a key that is absent, <<v>> for the value v
    rateLimiter,     \* BackgroundService.rateLimiter, its clock and its callers
    chats,           \* the chat requests at the session handling of handleChatRequest
    chatPort         \* the content script's ChatPortManager and the ports it opened

vars == <<index, items, isInitialized, stSources, stIndexedItems, stSearchIndex,
          tasks, initRuns, last, hist, calls, mode, local, rateLimiter, chats, chatPort>>

engineVars == <<index, items, isInitialized>>
storeVars == <<stSources, stIndexedItems, stSearchIndex>>

NoItem == [id |-> <<>>, title |-> <<>>, url |-> <<>>, content |-> <<>>,
           type |-> "none", timestamp |-> 0, snippet |-> <<>>]

\* DEFAULT_SETTINGS, as far as the background service reads them.
DEFAULT_SETTINGS ==
    [enabledSources |-> [bookmarks |-> TRUE, history |-> TRUE, readingList |-> TRUE],
     maxResults |-> 20,
     syncInterval |-> 30]

STORAGE_KEYS ==
    [BOOKMARKS |-> "browsermate_bookmarks", HISTORY |-> "browsermate_history",
     READING_LIST |-> "browsermate_reading_list",
     INDEXED_ITEMS |-> "browsermate_indexed_items",
     CHAT_SESSIONS |-> "browsermate_chat_sessions", SETTINGS |-> "browsermate_settings",
     LAST_SYNC_TIME |-> "browsermate_last_sync_time",
     SEARCH_INDEX |-> "browsermate_search_index"]

IdleTask ==
    [pc |-> "idle", op |-> "none", stage |-> "none", lazy |-> FALSE, again |-> FALSE,
     settings |-> DEFAULT_SETTINGS, context |-> <<>>,
     rfail |-> FALSE, wfail |-> FALSE, raising |-> {}, browser |-> SrcEmpty,
     down |-> {}, success |-> TRUE, key |-> "", value |-> <<>>, partial |-> <<>>,
     item |-> NoItem, id |-> <<>>, query |-> <<>>, lim |-> 0, fails |-> FALSE,
     loaded |-> <<>>, cur |-> <<>>, blob |-> <<>>, srcs |-> SrcEmpty, old |-> {},
     threw |-> FALSE, results |-> <<>>, seen |-> {}, rebuilding |-> {},
     stats |-> [totalItems |-> 0, indexSize |-> 0]]

(***************************************************************************)
(* The background service's rate limiter, its chat requests and the        *)
(* content script's port manager, as they are constructed.                 *)
(***************************************************************************)
\* The clock of the rate limiter counts in ticks; tokens are counted in
\* 1/TicksPerSecond, so that tokens + elapsed * refillRate is exact.
TicksPerSecond == 2

\* The callers of waitForToken.
Callers == {1, 2}

\* new RateLimiter(1, 1): maxTokens = 1, refillRate = 1, tokens = maxTokens and
\* lastRefill = Date.now(); timer[c] is the time caller c's setTimeout is due
\* (0: caller c is not waiting), admitted the times at which waitForToken
\* returned.
RateLimiter ==
    [maxTokens |-> TicksPerSecond, tokens |-> TicksPerSecond, lastRefill |-> 0,
     now |-> 0, timer |-> [c \in Callers |-> 0], admitted |-> <<>>]

\* The chat requests.
Requests == {1, 2}

\* A chat request that has not been sent; <<>> stands for no session id.
IdleChat ==
    [pc |-> "idle", query |-> "", sessionId |-> <<>>, currentSessionId |-> <<>>,
     answered |-> FALSE, session |-> <<>>, sessions |-> <<>>]

\* new ChatPortManager(): port and isConnected after setupPortConnection, in
\* which chrome.runtime.connect returned port 1 (ok) or raised; ports[p] tells
\* whether port p is open, timers counts the pending setTimeout callbacks
\* (port 0 stands for null).
ChatPortManager(ok) ==
    [port |-> IF ok THEN 1 ELSE 0, isConnected |-> ok,
     ports |-> IF ok THEN <<"open">> ELSE <<>>, timers |-> 0]

\* The parts of the extension a specification does not exercise.
Elsewhere ==
    /\ rateLimiter = RateLimiter
    /\ chats = [r \in Requests |-> IdleChat]
    /\ chatPort = ChatPortManager(TRUE)

\* The text index's export, an opaque string.
Serialize(ix) == Flatten([i \in DOMAIN ix |-> ix[i].content \o <<";">>])

\* addToIndex
AddToIndex(e, item, raises) ==
    Bind(e, LAMBDA x :
        [index |-> IF raises THEN x.index ELSE IndexAdd(x.index, item.id, item.content),
         items |-> ItemsSet(x.items, item)])

\* for (const item of indexedItems) this.addToIndex(item), on a new index and
\* an empty map.
RECURSIVE AddFrom(_, _, _, _)
AddFrom(e, list, i, raising) ==
    IF i > Len(list) THEN e
    ELSE Bind(AddToIndex(e, list[i], list[i].id \in raising),
              LAMBDA x : AddFrom(x, list, i + 1, raising))

AddAll(e, list, raising) == Bind(list, LAMBDA l : AddFrom(e, l, 1, raising))

FreshEngine(list) == AddAll([index |-> NewIndex, items |-> <<>>], list, {})

\* A guard that is taken whatever the flag says.
NeedsInitAlways == TRUE

\* if (!this.isInitialized) in initialize, search, addItem and removeItem
NeedsInit == ~isInitialized

InFlight == {t \in Tasks : tasks[t].pc # "idle"}

\* How many calls may be in flight at once.
MaxConc == IF mode \in {"conc", "both"} THEN 2 ELSE 1

\* hist is kept where calls are made one at a time.
KeepHist == mode \in {"seq", "both"}

\* A call takes the lowest free slot (the slots are interchangeable).
CallGuard(t) ==
    /\ tasks[t].pc = "idle"
    /\ Cardinality(InFlight) < MaxConc
    /\ mode \in {"conc", "fault", "both"} => calls < MaxCalls
    /\ \A u \in Tasks : u < t => tasks[u].pc # "idle"

LastTwo(s) == IF Len(s) > 2 THEN SubSeq(s, Len(s) - 1, Len(s)) ELSE s

\* A step of task t counts as a call when it is the task's first.
Counted(t) ==
    calls' = IF mode \in {"conc", "fault", "both"} /\ tasks[t].pc = "idle" THEN calls + 1
             ELSE calls

\* The call of task t returns; r is its record with its result.
Finish(t, r, modifying) ==
    /\ tasks' = [tasks EXCEPT ![t] = IdleTask]
    /\ Counted(t)
    /\ last' = IF r.op \in {"search", "getStats"} \/ mode = "fault"
               THEN [r EXCEPT !.pc = "done", !.loaded = <<>>, !.blob = <<>>]
               ELSE IdleTask
    /\ hist' = IF modifying /\ KeepHist
               THEN LastTwo(Append(hist, [op |-> r.op, item |-> r.item, id |-> r.id,
                                          srcs |-> r.srcs, again |-> r.again]))
               ELSE hist

Goto(t, r) ==
    /\ tasks' = [tasks EXCEPT ![t] = r]
    /\ Counted(t)
    /\ last' = IdleTask
    /\ UNCHANGED hist

\* await this.initialize() of a store that is not initialized: up to the
\* await of storage.getIndexedItems().
\* The record's lazy says whether the flag was unset when the call was made.
BeginInit(t, r) ==
    /\ Goto(t, [r EXCEPT !.pc = "init_read", !.lazy = ~isInitialized])
    /\ UNCHANGED <<engineVars, storeVars, initRuns, mode, local, rateLimiter, chats, chatPort>>

(***************************************************************************)
(* initialize                                                              *)
(***************************************************************************)
CallInitialize(t) ==
    /\ CallGuard(t)
    /\ LET r == [IdleTask EXCEPT !.op = "initialize"]
       IN  IF NeedsInit THEN BeginInit(t, r)
           ELSE /\ Finish(t, r, FALSE)
                /\ UNCHANGED <<engineVars, storeVars, initRuns, mode, local, rateLimiter, chats, chatPort>>

\* storage.getIndexedItems() reads the persisted collection, or [] when the
\* read fails (ok is whether chrome.storage answers with the value).
InitRead(t, ok) ==
    /\ tasks[t].pc = "init_read"
    /\ Goto(t, [tasks[t] EXCEPT !.pc = "init_replay",
                                !.loaded = IF ok THEN stIndexedItems ELSE <<>>,
                                !.rfail = ~ok])
    /\ UNCHANGED <<engineVars, storeVars, initRuns, mode, local, rateLimiter, chats, chatPort>>

\* The rest of initialize: replay what was loaded, if anything, into a new
\* index and the cleared map; mark the store initialized.
InitReplay(t) ==
    /\ tasks[t].pc = "init_replay"
    /\ LET r == tasks[t]
           e == IF Len(r.loaded) > 0 THEN FreshEngine(r.loaded)
                ELSE [index |-> index, items |-> items]
       IN  /\ index' = e.index
           /\ items' = e.items
           /\ isInitialized' = TRUE
           /\ initRuns' = initRuns + 1
           /\ IF r.op = "initialize" THEN Finish(t, r, FALSE)
              ELSE Goto(t, [r EXCEPT !.pc = "body"])
    /\ UNCHANGED <<storeVars, mode, local, rateLimiter, chats, chatPort>>

(***************************************************************************)
(* search                                                                  *)
(***************************************************************************)
RebuildsInFlight == {u \in Tasks : tasks[u].op = "rebuildIndex" /\ tasks[u].pc # "idle"}

\* The raw collections the rebuild of task u converts: those it has read, or
\* those in storage if it has yet to read them.
RebuildSources(u) == IF tasks[u].pc = "rb_read" THEN stSources ELSE tasks[u].srcs

\* fails: whether the try block raises this time.
SearchEffect(t, r, fails) ==
    LET out   == SearchBody(items, index, r.query, r.lim, fails)
        reads == Trim(r.query) # <<>>
    IN  /\ Finish(t, [r EXCEPT !.threw = out.threw,
                               !.fails = fails,
                               !.results = out.results,
                               !.seen = IF reads THEN ItemIds(items) ELSE {},
                               !.rebuilding =
                                   IF reads
                                   THEN {[old |-> tasks[u].old,
                                          new |-> ItemIds(ConvertAll(RebuildSources(u)))] :
                                            u \in RebuildsInFlight}
                                   ELSE {}],
                  FALSE)
        /\ UNCHANGED <<engineVars, storeVars, initRuns, mode, local, rateLimiter, chats, chatPort>>

CallSearch(t, query, maxResults, fails) ==
    /\ CallGuard(t)
    /\ LET r == [IdleTask EXCEPT !.op = "search", !.query = query, !.lim = maxResults]
       IN  IF NeedsInit THEN fails = FALSE /\ BeginInit(t, r)
           ELSE SearchEffect(t, r, fails)

ResumeSearch(t, fails) ==
    /\ tasks[t].pc = "body"
    /\ tasks[t].op = "search"
    /\ SearchEffect(t, tasks[t], fails)

(***************************************************************************)
(* addItem, removeItem, updateItem                                         *)
(***************************************************************************)
\* addItem up to the await in persistIndex.
AddEffect(t, r) ==
    LET e == AddToIndex([index |-> index, items |-> items], r.item, FALSE)
    IN  /\ index' = e.index
        /\ items' = e.items
        /\ Goto(t, [r EXCEPT !.pc = "persist", !.stage = "add",
                             !.blob = Serialize(e.index)])
        /\ UNCHANGED <<isInitialized, storeVars, initRuns, mode, local, rateLimiter, chats, chatPort>>

\* removeItem up to the await in persistIndex.
RemoveEffect(t, r) ==
    /\ index' = IndexRemove(index, r.id)
    /\ items' = ItemsDelete(items, r.id)
    /\ Goto(t, [r EXCEPT !.pc = "persist", !.stage = "remove",
                         !.blob = Serialize(IndexRemove(index, r.id))])
    /\ UNCHANGED <<isInitialized, storeVars, initRuns, mode, local, rateLimiter, chats, chatPort>>

AddsInFlight == {u \in Tasks : tasks[u].pc # "idle" /\ tasks[u].op \in {"addItem", "updateItem"}}

StoreHasRoom == Len(stIndexedItems) + Cardinality(AddsInFlight) < MaxStored

\* The modifying call before this one was addItem of the same item.
AddedBefore(item) ==
    /\ hist # <<>>
    /\ hist[Len(hist)].op = "addItem"
    /\ hist[Len(hist)].item = item

CallAddItem(t, item) ==
    /\ CallGuard(t)
    /\ StoreHasRoom
    /\ LET r == [IdleTask EXCEPT !.op = "addItem", !.stage = "add", !.item = item,
                                 !.id = item.id, !.again = AddedBefore(item)]
       IN  IF NeedsInit THEN BeginInit(t, r) ELSE AddEffect(t, r)

CallRemoveItem(t, id) ==
    /\ CallGuard(t)
    /\ LET r == [IdleTask EXCEPT !.op = "removeItem", !.stage = "remove", !.id = id]
       IN  IF NeedsInit THEN BeginInit(t, r) ELSE RemoveEffect(t, r)

\* An updateItem that adds without removing first.
CallUpdateItemAddOnly(t, item) ==
    /\ CallGuard(t)
    /\ StoreHasRoom
    /\ LET r == [IdleTask EXCEPT !.op = "updateItem", !.stage = "add",
                                 !.item = item, !.id = item.id]
       IN  IF NeedsInit THEN BeginInit(t, r) ELSE AddEffect(t, r)

\* updateItem: await this.removeItem(item.id); await this.addItem(item)
CallUpdateItem(t, item) ==
    /\ CallGuard(t)
    /\ StoreHasRoom
    /\ LET r == [IdleTask EXCEPT !.op = "updateItem", !.stage = "remove",
                                 !.item = item, !.id = item.id]
       IN  IF NeedsInit THEN BeginInit(t, r) ELSE RemoveEffect(t, r)

ResumeAdd(t) ==
    /\ tasks[t].pc = "body"
    /\ tasks[t].stage = "add"
    /\ AddEffect(t, tasks[t])

ResumeRemove(t) ==
    /\ tasks[t].pc = "body"
    /\ tasks[t].stage = "remove"
    /\ RemoveEffect(t, tasks[t])

\* A persistIndex without its try block: a failed write ends the call with
\* the error.
PersistUncaught(t, ok) ==
    /\ tasks[t].pc = "persist"
    /\ IF ok
       THEN /\ stSearchIndex' = tasks[t].blob
            /\ Goto(t, [tasks[t] EXCEPT !.pc = IF tasks[t].op \in {"rebuildIndex", "sync"}
                                               THEN "rb_write" ELSE "st_read"])
       ELSE /\ UNCHANGED stSearchIndex
            /\ Finish(t, [tasks[t] EXCEPT !.threw = TRUE, !.wfail = TRUE], TRUE)
    /\ UNCHANGED <<engineVars, stSources, stIndexedItems, initRuns, mode, local, rateLimiter, chats, chatPort>>

\* persistIndex: the export delivers the serialized index, which is stored
\* unless the write fails (storage.set then returns false, and a rejection is
\* caught).
Persist(t, ok) ==
    /\ tasks[t].pc = "persist"
    /\ stSearchIndex' = IF ok THEN tasks[t].blob ELSE stSearchIndex
    /\ Goto(t, [tasks[t] EXCEPT !.pc = IF tasks[t].op \in {"rebuildIndex", "sync"}
                                       THEN "rb_write" ELSE "st_read",
                                !.wfail = tasks[t].wfail \/ ~ok])
    /\ UNCHANGED <<engineVars, stSources, stIndexedItems, initRuns, mode, local, rateLimiter, chats, chatPort>>

\* const currentItems = await storage.getIndexedItems()
StRead(t, ok) ==
    /\ tasks[t].pc = "st_read"
    /\ Goto(t, [tasks[t] EXCEPT !.pc = "st_write",
                                !.cur = IF ok THEN stIndexedItems ELSE <<>>,
                                !.rfail = tasks[t].rfail \/ ~ok])
    /\ UNCHANGED <<engineVars, storeVars, initRuns, mode, local, rateLimiter, chats, chatPort>>

\* A filter that drops the first entry of the id only.
WithoutFirstOf(list, id) ==
    SelectSeqIdx(list, {i \in DOMAIN list :
                            list[i].id # id \/ \E j \in 1..(i - 1) : list[j].id = id})

\* currentItems.filter(item => item.id !== itemId)
WithoutId(list, id) == SelectSeqIdx(list, {i \in DOMAIN list : list[i].id # id})

\* currentItems.push(item)
WithItem(list, item) == Append(list, item)

\* await storage.setIndexedItems(...), and the return of addItem or removeItem.
StWrite(t, ok) ==
    /\ tasks[t].pc = "st_write"
    /\ LET r == [tasks[t] EXCEPT !.wfail = tasks[t].wfail \/ ~ok]
       IN  /\ stIndexedItems' = IF ~ok THEN stIndexedItems
                                ELSE IF r.stage = "add" THEN WithItem(r.cur, r.item)
                                ELSE WithoutId(r.cur, r.id)
           /\ IF r.op = "updateItem" /\ r.stage = "remove"
              THEN Goto(t, [r EXCEPT !.pc = "body", !.stage = "add"])
              ELSE Finish(t, r, TRUE)
    /\ UNCHANGED <<engineVars, stSources, stSearchIndex, initRuns, mode, local, rateLimiter, chats, chatPort>>

(***************************************************************************)
(* rebuildIndex                                                            *)
(***************************************************************************)
\* Up to the await of the three storage reads: the index and the map are
\* replaced by empty ones.
CallRebuild(t) ==
    /\ CallGuard(t)
    /\ index' = NewIndex
    /\ items' = <<>>
    /\ Goto(t, [IdleTask EXCEPT !.op = "rebuildIndex", !.pc = "rb_read",
                                !.old = ItemIds(items)])
    /\ UNCHANGED <<isInitialized, storeVars, initRuns, mode, local, rateLimiter, chats, chatPort>>

RbRead(t, ok) ==
    /\ tasks[t].pc = "rb_read"
    /\ Goto(t, [tasks[t] EXCEPT !.pc = "rb_build",
                                !.srcs = IF ok THEN stSources ELSE SrcEmpty,
                                !.rfail = tasks[t].rfail \/ ~ok])
    /\ UNCHANGED <<engineVars, storeVars, initRuns, mode, local, rateLimiter, chats, chatPort>>

\* Convert, add every item to the index, call persistIndex.  bad: the stored
\* collections are not what the converters expect (an element that is null, a
\* value that is no array) and a converter raises; the catch block logs and
\* rethrows, and the catch block of a sync returns success: false.  What a
\* sync has just stored is well-formed.  raising: the ids for which index.add
\* raises.
RbBuild(t, bad, raising) ==
    /\ tasks[t].pc = "rb_build"
    /\ bad => tasks[t].op = "rebuildIndex" \/ tasks[t].wfail
    /\ IF bad
       THEN /\ Finish(t, [tasks[t] EXCEPT !.threw = (tasks[t].op = "rebuildIndex"),
                                          !.success = FALSE], TRUE)
            /\ UNCHANGED <<index, items>>
       ELSE LET e == AddAll([index |-> index, items |-> items],
                           ConvertAll(tasks[t].srcs), raising)
            IN  /\ index' = e.index
                /\ items' = e.items
                /\ Goto(t, [tasks[t] EXCEPT !.pc = "persist",
                                            !.blob = Serialize(e.index),
                                            !.raising = raising])
    /\ UNCHANGED <<isInitialized, storeVars, initRuns, mode, local, rateLimiter, chats, chatPort>>

\* await storage.setIndexedItems(Array.from(this.items.values()))
RbWrite(t, ok) ==
    /\ tasks[t].pc = "rb_write"
    /\ stIndexedItems' = IF ok THEN items ELSE stIndexedItems
    /\ Finish(t, [tasks[t] EXCEPT !.wfail = tasks[t].wfail \/ ~ok], TRUE)
    /\ UNCHANGED <<engineVars, stSources, stSearchIndex, initRuns, mode, local, rateLimiter, chats, chatPort>>

(***************************************************************************)
(* getStats, clearIndex                                                    *)
(***************************************************************************)
StatsUninitialized == [totalItems |-> 0, indexSize |-> 0]

\* What getStats returns, given the flag at the call, the stored blob it read
\* and the map at its return.
GetStats(initialized, blob, its) ==
    IF ~initialized THEN StatsUninitialized
    ELSE [totalItems |-> Len(its), indexSize |-> Len(blob)]

CallGetStats(t) ==
    /\ CallGuard(t)
    /\ LET r == [IdleTask EXCEPT !.op = "getStats"]
       IN  IF ~isInitialized
           THEN Finish(t, [r EXCEPT !.stats = GetStats(FALSE, <<>>, items)], FALSE)
           ELSE Goto(t, [r EXCEPT !.pc = "gs_read"])
    /\ UNCHANGED <<engineVars, storeVars, initRuns, mode, local, rateLimiter, chats, chatPort>>

GsRead(t, ok) ==
    /\ tasks[t].pc = "gs_read"
    /\ Goto(t, [tasks[t] EXCEPT !.pc = "gs_return",
                                !.blob = IF ok THEN stSearchIndex ELSE <<>>,
                                !.rfail = ~ok])
    /\ UNCHANGED <<engineVars, storeVars, initRuns, mode, local, rateLimiter, chats, chatPort>>

GsReturn(t) ==
    /\ tasks[t].pc = "gs_return"
    /\ Finish(t, [tasks[t] EXCEPT !.stats = GetStats(TRUE, tasks[t].blob, items)], FALSE)
    /\ UNCHANGED <<engineVars, storeVars, initRuns, mode, local, rateLimiter, chats, chatPort>>

CallClear(t) ==
    /\ CallGuard(t)
    /\ index' = NewIndex
    /\ items' = <<>>
    /\ Goto(t, [IdleTask EXCEPT !.op = "clearIndex", !.pc = "clear_index"])
    /\ UNCHANGED <<isInitialized, storeVars, initRuns, mode, local, rateLimiter, chats, chatPort>>

\* await storage.setSearchIndex('')
ClearStoredIndex(t, ok) ==
    /\ tasks[t].pc = "clear_index"
    /\ stSearchIndex' = IF ok THEN <<>> ELSE stSearchIndex
    /\ Goto(t, [tasks[t] EXCEPT !.pc = "clear_items", !.wfail = ~ok])
    /\ UNCHANGED <<engineVars, stSources, stIndexedItems, initRuns, mode, local, rateLimiter, chats, chatPort>>

\* A clearIndex that leaves the persisted collection as it is.
ClearStoredItemsNot(t, ok) ==
    /\ tasks[t].pc = "clear_items"
    /\ Finish(t, tasks[t], TRUE)
    /\ UNCHANGED <<engineVars, storeVars, initRuns, mode, local, rateLimiter, chats, chatPort>>

\* await storage.setIndexedItems([])
ClearStoredItems(t, ok) ==
    /\ tasks[t].pc = "clear_items"
    /\ stIndexedItems' = IF ok THEN <<>> ELSE stIndexedItems
    /\ Finish(t, [tasks[t] EXCEPT !.wfail = tasks[t].wfail \/ ~ok], TRUE)
    /\ UNCHANGED <<engineVars, stSources, stSearchIndex, initRuns, mode, local, rateLimiter, chats, chatPort>>

(***************************************************************************)
(* The sync stores the raw collections (worker.ts, syncBrowserData).       *)
(***************************************************************************)
SetSources(srcs) ==
    /\ srcs # stSources
    /\ mode = "conc" => calls < MaxCalls
    /\ stSources' = srcs
    /\ calls' = IF mode = "conc" THEN calls + 1 ELSE calls
    /\ last' = IdleTask
    /\ UNCHANGED <<engineVars, stIndexedItems, stSearchIndex, tasks, initRuns,
                   hist, mode, local, rateLimiter, chats, chatPort>>

\* What the three providers return when those in down fail: each catches its
\* error and returns [].
Providers == {"bookmarks", "history", "readingList"}

FetchEverything(browser, down) == browser

Fetch(browser, down) == [p \in Providers |-> IF p \in down THEN <<>> ELSE browser[p]]

\* syncBrowserData up to the await of the three storage writes.
CallSync(t, browser, down) ==
    /\ CallGuard(t)
    /\ Goto(t, [IdleTask EXCEPT !.op = "sync", !.pc = "sync_store",
                                !.browser = browser, !.down = down])
    /\ UNCHANGED <<engineVars, storeVars, initRuns, mode, local, rateLimiter, chats, chatPort>>

\* The writes of the raw collections, then rebuildIndex up to the await of
\* its reads.
SyncStore(t, ok) ==
    /\ tasks[t].pc = "sync_store"
    /\ stSources' = IF ok THEN Fetch(tasks[t].browser, tasks[t].down) ELSE stSources
    /\ index' = NewIndex
    /\ items' = <<>>
    /\ Goto(t, [tasks[t] EXCEPT !.pc = "rb_read", !.old = ItemIds(items),
                                !.wfail = ~ok])
    /\ UNCHANGED <<isInitialized, stIndexedItems, stSearchIndex, initRuns, mode, local, rateLimiter, chats, chatPort>>

(***************************************************************************)
(* Specifications.                                                         *)
(***************************************************************************)
\* The storage an earlier sync left (nothing, or the documents of some raw
\* collections), and over it either a new service worker's empty,
\* uninitialized engine or an engine that has initialized from the storage.
InitWith(m) ==
    /\ \E srcs \in SourceSets, ready \in BOOLEAN :
          LET e == FreshEngine(ConvertAll(srcs))
          IN  /\ stSources = srcs
              /\ stIndexedItems = e.items
              /\ stSearchIndex = Serialize(e.index)
              /\ isInitialized = ready
              /\ index = IF ready THEN e.index ELSE NewIndex
              /\ items = IF ready THEN e.items ELSE <<>>
    /\ tasks = [t \in Tasks |-> IdleTask]
    /\ initRuns = 0
    /\ calls = 0
    /\ last = IdleTask
    /\ hist = <<>>
    /\ mode = m
    /\ local = [k \in Range(STORAGE_KEYS) |-> <<>>]
    /\ Elsewhere

Init == InitWith("conc")

InitSeq == InitWith("seq")


Next ==
    \/ \E t \in Tasks : CallInitialize(t)
    \/ \E t \in Tasks : InitRead(t, TRUE)
    \/ \E t \in Tasks : InitReplay(t)
    \/ \E t \in Tasks, q \in Queries, n \in Limits, f \in BOOLEAN : CallSearch(t, q, n, f)
    \/ \E t \in Tasks, f \in BOOLEAN : ResumeSearch(t, f)
    \/ \E t \in Tasks, item \in AddItems : CallAddItem(t, item)
    \/ \E t \in Tasks, id \in RemoveIds : CallRemoveItem(t, id)
    \/ \E t \in Tasks, item \in AddItems : CallUpdateItem(t, item)
    \/ \E t \in Tasks : ResumeAdd(t)
    \/ \E t \in Tasks : ResumeRemove(t)
    \/ \E t \in Tasks : Persist(t, TRUE)
    \/ \E t \in Tasks : StRead(t, TRUE)
    \/ \E t \in Tasks : StWrite(t, TRUE)
    \/ \E t \in Tasks : CallRebuild(t)
    \/ \E t \in Tasks : RbRead(t, TRUE)
    \/ \E t \in Tasks : RbBuild(t, FALSE, {})
    \/ \E t \in Tasks : RbWrite(t, TRUE)
    \/ \E t \in Tasks : CallGetStats(t)
    \/ \E t \in Tasks : GsRead(t, TRUE)
    \/ \E t \in Tasks : GsReturn(t)
    \/ \E t \in Tasks : CallClear(t)
    \/ \E t \in Tasks : ClearStoredIndex(t, TRUE)
    \/ \E t \in Tasks : ClearStoredItems(t, TRUE)
    \/ \E srcs \in SourceSets : SetSources(srcs)

\* Any number of calls in flight, interleaved at their awaits.
Spec == Init /\ [][Next]_vars

\* One call at a time: each call returns before the next is made.
SpecSeq == InitSeq /\ [][Next]_vars

\* One call at a time on a storage whose reads and writes may fail, over
\* stored data that may be malformed and an index whose add may raise.
NextFault ==
    \/ \E t \in Tasks : CallInitialize(t)
    \/ \E t \in Tasks, ok \in BOOLEAN : InitRead(t, ok)
    \/ \E t \in Tasks : InitReplay(t)
    \/ \E t \in Tasks, q \in Queries, n \in Limits, f \in BOOLEAN : CallSearch(t, q, n, f)
    \/ \E t \in Tasks, f \in BOOLEAN : ResumeSearch(t, f)
    \/ \E t \in Tasks, item \in AddItems : CallAddItem(t, item)
    \/ \E t \in Tasks, id \in RemoveIds : CallRemoveItem(t, id)
    \/ \E t \in Tasks : ResumeAdd(t)
    \/ \E t \in Tasks : ResumeRemove(t)
    \/ \E t \in Tasks, ok \in BOOLEAN : Persist(t, ok)
    \/ \E t \in Tasks, ok \in BOOLEAN : StRead(t, ok)
    \/ \E t \in Tasks, ok \in BOOLEAN : StWrite(t, ok)
    \/ \E t \in Tasks : CallRebuild(t)
    \/ \E t \in Tasks, ok \in BOOLEAN : RbRead(t, ok)
    \/ \E t \in Tasks, bad \in BOOLEAN :
          \E raising \in {{}} \cup {{id} : id \in ItemIds(ConvertAll(tasks[t].srcs))} :
              RbBuild(t, bad, raising)
    \/ \E t \in Tasks, ok \in BOOLEAN : RbWrite(t, ok)
    \/ \E t \in Tasks : CallGetStats(t)
    \/ \E t \in Tasks, ok \in BOOLEAN : GsRead(t, ok)
    \/ \E t \in Tasks : GsReturn(t)
    \/ \E t \in Tasks, browser \in SourceSets,
             down \in {d \in SUBSET Providers : Cardinality(d) <= 1} :
          CallSync(t, browser, down)
    \/ \E t \in Tasks, ok \in BOOLEAN : SyncStore(t, ok)
    \/ \E t \in Tasks, item \in AddItems : CallUpdateItem(t, item)
    \/ \E t \in Tasks : CallClear(t)
    \/ \E t \in Tasks, ok \in BOOLEAN : ClearStoredIndex(t, ok)
    \/ \E t \in Tasks, ok \in BOOLEAN : ClearStoredItems(t, ok)

SpecFault == InitWith("fault") /\ [][NextFault]_vars

(***************************************************************************)
(* rebuildIndex and initialize under interleaving.                         *)
(***************************************************************************)
\* C1: rebuildIndex is atomic for a concurrent search: a search that reads the
\* map while a rebuild is in flight sees the whole document set of before the
\* rebuild or the whole document set of after it, never an empty or partly
\* filled one.
C1_RebuildAtomic ==
    (last.op = "search" /\ last.rebuilding # {})
        => \A p \in last.rebuilding : last.seen \in {p.old, p.new}

\* C2: lazy initialization is single-flight: however many calls trigger it
\* while the store is not initialized, the persisted documents are loaded and
\* replayed once.
C2_SingleFlight == initRuns <= 1

\* No call is in flight.
Quiescent == InFlight = {}

\* The last two modifying calls, both returned, were op1 and then op2.
Called(op1, op2) ==
    /\ Quiescent
    /\ Len(hist) = 2
    /\ hist[1].op = op1
    /\ hist[2].op = op2

\* C3: after a rebuild over collections X and then a rebuild over collections
\* Y, the documents of Y, and no others, are in the index and the map and are
\* counted by getStats.
C3_SecondRebuildWins ==
    Called("rebuildIndex", "rebuildIndex") =>
        \E docs \in {ConvertAll(hist[2].srcs)} :
            /\ ItemIds(items) = ItemIds(docs)
            /\ IndexIds(index) = ItemIds(docs)
            /\ GetStats(isInitialized, stSearchIndex, items).totalItems = Len(docs)

(***************************************************************************)
(* addItem and removeItem, one call at a time.                             *)
(***************************************************************************)
\* The ids a search for query q with limit n returns on the engine e.
Found(e, q, n) == Range(ResultIds(SearchBody(e.items, e.index, q, n, FALSE).results))

Engine == [index |-> index, items |-> items]

\* What a new engine holds once it has initialized from the storage.
Restored == FreshEngine(stIndexedItems)

\* No copy of the document id is left in the map, in the text index or in the
\* persisted collection, and no search finds it, now or after a restart.
Gone(id) ==
    /\ id \notin ItemIds(items)
    /\ id \notin IndexIds(index)
    /\ id \notin ItemIds(stIndexedItems)
    /\ \A q \in Queries, n \in Limits :
          id \notin Found(Engine, q, n) \cup Found(Restored, q, n)

AddedThenRemoved ==
    /\ Called("addItem", "removeItem")
    /\ hist[1].id = hist[2].id

\* C4: after addItem(item) and then removeItem(item.id), no search returns the
\* item's id, and the id is in neither the map nor the persisted collection.
C4_AddRemove == AddedThenRemoved => Gone(hist[2].id)

C4_Witness == AddedThenRemoved /\ hist[1].item = N1 /\ items # <<>>

\* C5: after addItem(item) twice and then removeItem(item.id) once, no copy of
\* the item is left in the map, the text index or the persisted collection,
\* and it is not found now nor after initializing again from the storage.
C5_AddTwiceRemoveOnce == (AddedThenRemoved /\ hist[1].again) => Gone(hist[2].id)

C5_Witness == AddedThenRemoved /\ hist[1].again /\ stIndexedItems # <<>>

\* Task t takes a step of an addItem that repeats the addItem before it.
RepeatedAddStep(t) == tasks'[t] # tasks[t] /\ (tasks[t].again \/ tasks'[t].again)

\* C6: addItem is idempotent per id: a second addItem(item) leaves the map, the
\* text index and the persisted collection as the first one left them.
C6_AddIdempotent ==
    [][\A t \in Tasks :
          RepeatedAddStep(t) =>
              /\ items' = items
              /\ Range(index') = Range(index)
              /\ stIndexedItems' = stIndexedItems]_vars

(***************************************************************************)
(* Persisting and restoring.                                               *)
(***************************************************************************)
\* The engine a search works on: the engine as it is or, where the store is
\* not initialized, as the lazy initialization of the search leaves it.
Serving ==
    IF isInitialized \/ stIndexedItems = <<>> THEN Engine ELSE Restored

\* C7: in any state with no call in flight, a new engine initialized from the
\* persisted index and documents returns, for every query and limit, the same
\* ids in the same order as the engine in use.
C7_RestoreSameSearch ==
    Quiescent =>
        \A q \in Queries, n \in Limits :
            ResultIds(SearchBody(Serving.items, Serving.index, q, n, FALSE).results)
                = ResultIds(SearchBody(Restored.items, Restored.index, q, n, FALSE).results)

(***************************************************************************)
(* search                                                                  *)
(***************************************************************************)
Returned(op) == last.op = op /\ last.pc = "done"

Blank(query) == Trim(query) = <<>>

\* C8: search does not throw, and returns the empty list for a blank query, for
\* an empty map and when its try block raises.
C8_SearchNeverThrows ==
    Returned("search") =>
        /\ ~last.threw
        /\ (Blank(last.query) \/ items = <<>> \/ last.fails) => last.results = <<>>

C8_Witness ==
    Returned("search") /\ last.fails /\ ~Blank(last.query) /\ items # <<>>

\* Task t takes a step of a search with a blank query.
BlankSearchStep(t) ==
    \/ /\ tasks'[t] # tasks[t]
       /\ \/ tasks[t].op = "search" /\ Blank(tasks[t].query)
          \/ tasks'[t].op = "search" /\ Blank(tasks'[t].query)
    \/ /\ tasks' = tasks
       /\ tasks[t].pc = "idle"
       /\ last'.op = "search" /\ last'.pc = "done" /\ Blank(last'.query)

\* The call of task t found the store initialized.
CalledReady(t) ==
    \/ tasks[t].pc # "idle" /\ ~tasks[t].lazy
    \/ tasks[t].pc = "idle" /\ tasks'[t].pc # "idle" /\ ~tasks'[t].lazy
    \/ tasks' = tasks /\ ~last'.lazy

\* C9, as the specification states it: a search with a blank query leaves the
\* text index, the map and the initialization flag as they were, in every
\* state, that of a store not yet initialized included.
C9_BlankSearchFrame ==
    [][\A t \in Tasks : BlankSearchStep(t) => UNCHANGED engineVars]_vars

\* C9, amended: a search with a blank query that is called on an initialized
\* store leaves the text index, the map and the initialization flag as they
\* were.
C9_BlankSearchFrameReady ==
    [][\A t \in Tasks :
          (BlankSearchStep(t) /\ CalledReady(t)) => UNCHANGED engineVars]_vars

C9_Witness ==
    Returned("search") /\ Blank(last.query) /\ ~last.lazy /\ isInitialized /\ items # <<>>

\* C10: a keyword query equal to the title of a document in the map returns a
\* document of that title first.
C10_ExactTitleFirst ==
    (/\ Returned("search")
     /\ ~last.fails
     /\ ~Blank(last.query)
     /\ ~IsListAllQuery(last.query)
     /\ \E i \in DOMAIN items : items[i].title = last.query)
        => /\ last.results # <<>>
           /\ Lower(last.results[1].item.title) = Lower(last.query)

(***************************************************************************)
(* Queries on a store of any documents, in any insertion order.            *)
(***************************************************************************)
\* An IndexedItem as the converters and the callers of addItem build it.
Doc(n, title, url, type, ts) ==
    [id |-> <<type, n>>, title |-> title, url |-> url,
     content |-> JoinContent(title, url), type |-> type, timestamp |-> ts,
     snippet |-> GenerateSnippet(JoinContent(title, url))]

\* Two history documents that differ in id and timestamp only, a bookmark, a
\* reading-list entry, and a bookmark whose title is a query.
ListDocs ==
    {Doc("1", Str.Cat, Str.u1, "bookmark", 90),
     Doc("2", Str.cats, Str.u2, "history", 10),
     Doc("3", Str.cats, Str.u2, "history", 50),
     Doc("4", Str.Dog, Str.u3, "reading-list", 80),
     Doc("5", Str.cat, Str.u4, "bookmark", 50)}

\* How many documents such a store holds.
MaxDocs == 3

DocLists ==
    {l \in UNION {[1..n -> ListDocs] : n \in 0..MaxDocs} :
        \A i, j \in DOMAIN l : i # j => l[i] # l[j]}

\* The queries and limits of the searches on such a store, and the queries
\* and the settings (the stored ones merged over the defaults) of the chat
\* requests.
Asked ==
    [queries |-> {Word.history, Word.show, Word.reading \o <<" ">> \o Word.list,
                  Word.bookmark \o <<"s", " ">> \o Word.history, Str.cat,
                  Str.cat \o <<" ">> \o Str.Dog},
     limits |-> {1, 2, 20},
     chat |-> {Word.history, Word.bookmark \o <<"s", " ">> \o Word.history, Str.cat},
     settings |-> [enabledSources : [bookmarks : BOOLEAN, history : BOOLEAN,
                                     readingList : BOOLEAN],
                   maxResults : {1, 20}]]

\* An initialized engine holding the documents docs, added in that order and
\* persisted.
InitDocs(lists, m) ==
    /\ \E docs \in lists :
          \E e \in {FreshEngine(docs)} :
              /\ index = e.index
              /\ items = e.items
              /\ stIndexedItems = docs
              /\ stSearchIndex = Serialize(e.index)
    /\ stSources = SrcEmpty
    /\ isInitialized = TRUE
    /\ tasks = [t \in Tasks |-> IdleTask]
    /\ initRuns = 0
    /\ calls = 0
    /\ last = IdleTask
    /\ hist = <<>>
    /\ mode = m
    /\ local = [k \in Range(STORAGE_KEYS) |-> <<>>]
    /\ Elsewhere

NextList ==
    \E q \in Asked.queries, n \in Asked.limits : CallSearch(1, q, n, FALSE)

SpecList == InitDocs(DocLists, "query") /\ [][NextList]_vars

Types == {"bookmark", "history", "reading-list"}

\* The source types a query names; all of them when it names none.
NamedTypes(query) ==
    LET q == Lower(query)
        named ==
            {ty \in Types :
                \/ /\ ty = "bookmark"
                   /\ Contains(q, Word.bookmark) \/ Contains(q, Word.shuqian)
                \/ /\ ty = "history"
                   /\ \/ Contains(q, Word.history) \/ Contains(q, Word.lishi)
                      \/ Contains(q, Word.liulanjilu)
                \/ /\ ty = "reading-list"
                   /\ \/ ContainsOpt(q, Word.reading, Word.list)
                      \/ Contains(q, Word.yueduqingdan)
                      \/ Contains(q, Word.yueduliebiao)}
    IN  IF named = {} THEN Types ELSE named

\* A search with an enumeration query has returned from its try block.
Enumerated ==
    /\ Returned("search")
    /\ ~last.fails
    /\ ~Blank(last.query)
    /\ items # <<>>
    /\ IsListAllQuery(last.query)

\* The documents of the results, in order.
Ranked == [i \in DOMAIN last.results |-> last.results[i].item]

\* C11: an enumeration query returns the documents of the map whose type the
\* query names (of every type when it names none), each once, newest first,
\* and of these the first limit ones.
C11_Enumeration ==
    Enumerated =>
        \E got \in {Ranked}, named \in {NamedTypes(last.query)} :
            /\ \A i \in DOMAIN got : got[i] \in Range(items) /\ got[i].type \in named
            /\ \A i, j \in DOMAIN got : i < j =>
                  got[i].id # got[j].id /\ got[i].timestamp >= got[j].timestamp
            /\ Len(got) = Min(last.lim,
                              Cardinality({i \in DOMAIN items : items[i].type \in named}))
            /\ \A i \in DOMAIN items :
                  (items[i].type \in named /\ items[i] \notin Range(got))
                      => \A j \in DOMAIN got : got[j].timestamp >= items[i].timestamp

C11_Witness ==
    /\ Enumerated
    /\ last.query = Word.history
    /\ Len(Ranked) = 2
    /\ Ranked[1].timestamp > Ranked[2].timestamp
    /\ \E i \in DOMAIN items : items[i].type = "bookmark"

(***************************************************************************)
(* The context of a chat request.                                          *)
(***************************************************************************)
\* The switch on result.item.type of the filter callback.
IsEnabledAlways(type, enabledSources) == TRUE

IsEnabled(type, enabledSources) ==
    CASE type = "bookmark" -> enabledSources.bookmarks
      [] type = "history" -> enabledSources.history
      [] type = "reading-list" -> enabledSources.readingList
      [] OTHER -> TRUE

\* searchResults.filter(...).slice(0, settings.maxResults).map(...)
Context(results, settings) ==
    LET filteredResults ==
            SelectSeq(results, LAMBDA r : IsEnabled(r.item.type, settings.enabledSources))
        kept == Take(filteredResults, settings.maxResults)
    IN  [i \in DOMAIN kept |->
            [title |-> kept[i].item.title,
             url |-> kept[i].item.url,
             snippet |-> OrElse(kept[i].item.snippet, <<>>,
                                Take(kept[i].item.content, SnippetMax)),
             type |-> kept[i].item.type,
             timestamp |-> kept[i].item.timestamp]]

\* A document added without a snippet, its content longer than a snippet.
LongDoc ==
    [id |-> <<"history", "6">>, title |-> Str.cat, url |-> Str.u2,
     content |-> Str.cat \o <<" ">> \o [i \in 1..SnippetMax |-> "x"],
     type |-> "history", timestamp |-> 70, snippet |-> <<>>]

ChatLists ==
    {l \o tail : l \in {d \in DocLists : Len(d) < MaxDocs}, tail \in {<<>>, <<LongDoc>>}}

\* handleChatRequest on an initialized engine that holds documents:
\* indexer.search(query, 20), up to the await of storage.getSettings().
ChatSearch(t, query) ==
    /\ CallGuard(t)
    /\ isInitialized
    /\ LET out == SearchBody(items, index, query, 20, FALSE)
       IN  Goto(t, [IdleTask EXCEPT !.pc = "chat_settings", !.op = "chat",
                                    !.query = query, !.lim = 20,
                                    !.results = out.results])
    /\ UNCHANGED <<engineVars, storeVars, initRuns, mode, local, rateLimiter, chats, chatPort>>

\* The settings arrive; the filter and the projection build the context.
ChatContext(t, settings) ==
    /\ tasks[t].pc = "chat_settings"
    /\ tasks' = [tasks EXCEPT ![t] = IdleTask]
    /\ last' = [tasks[t] EXCEPT !.pc = "done", !.settings = settings,
                                !.context = Context(tasks[t].results, settings)]
    /\ UNCHANGED <<engineVars, storeVars, initRuns, calls, hist, mode, local, rateLimiter, chats, chatPort>>

NextChat ==
    \/ \E q \in Asked.chat : ChatSearch(1, q)
    \/ \E s \in Asked.settings : ChatContext(1, s)

SpecChat == InitDocs(ChatLists, "chat") /\ [][NextChat]_vars

\* Whether the configuration disables the source of this type.
Disabled(type, settings) ==
    \/ type = "bookmark" /\ ~settings.enabledSources.bookmarks
    \/ type = "history" /\ ~settings.enabledSources.history
    \/ type = "reading-list" /\ ~settings.enabledSources.readingList

Chatted == last.pc = "done" /\ last.op = "chat"

\* What a context entry may carry of a ranked result.
Projects(entry, item) ==
    /\ DOMAIN entry = {"title", "url", "snippet", "type", "timestamp"}
    /\ entry.title = item.title
    /\ entry.url = item.url
    /\ entry.type = item.type
    /\ entry.timestamp = item.timestamp
    /\ \/ entry.snippet = item.snippet /\ item.snippet # <<>>
       \/ /\ item.snippet = <<>>
          /\ Len(entry.snippet) <= 200
          /\ IsPrefix(entry.snippet, item.content)
          /\ Len(entry.snippet) = 200 \/ entry.snippet = item.content

C12_WitnessTruncated ==
    /\ Chatted
    /\ \E i \in DOMAIN last.context : Len(last.context[i].snippet) = 200

(***************************************************************************)
(* Failures of the storage, of the stored data and of the index.           *)
(***************************************************************************)
\* The storage answers every read of an initialization, and the
\* initialization then runs on.
SpecFaultFair ==
    /\ SpecFault
    /\ WF_vars(\E t \in Tasks, ok \in BOOLEAN : InitRead(t, ok))
    /\ WF_vars(\E t \in Tasks : InitReplay(t))

Initializing(t) == tasks[t].pc \in {"init_read", "init_replay"}

\* The initialization of task t ends, after a load that failed.
FailedLoadEnds(t) ==
    /\ tasks[t].pc = "init_replay"
    /\ tasks[t].rfail
    /\ tasks'[t].pc # "init_replay"

\* Every initialization that has started ends with the store initialized; one
\* whose load failed leaves the index and the map as they were.
InitEndsReady ==
    /\ \A t \in Tasks : Initializing(t) ~> isInitialized
    /\ [][\A t \in Tasks :
            FailedLoadEnds(t) => isInitialized' /\ index' = index /\ items' = items]_vars

\* C13: every initialization that has started ends with the store
\* initialized, also when the load of the persisted documents failed, and
\* after a failed load the index and the map are empty.
C13_InitEndsReadyEmpty ==
    /\ \A t \in Tasks : Initializing(t) ~> isInitialized
    /\ [][\A t \in Tasks :
            FailedLoadEnds(t) =>
                isInitialized' /\ IndexIds(index') = {} /\ items' = <<>>]_vars

\* What a call in flight does by itself or on the answer to a storage write:
\* every step but the answer to a storage read (StorageManager.get awaits
\* chrome.storage.local.get and nothing else) and the delivery of the index
\* export (persistIndex awaits the callback of index.export with the key
\* 'index' and nothing else).
Continues(t) ==
    \/ InitReplay(t)
    \/ \E f \in BOOLEAN : ResumeSearch(t, f)
    \/ ResumeAdd(t)
    \/ ResumeRemove(t)
    \/ GsReturn(t)
    \/ RbBuild(t, FALSE, {})
    \/ \E ok \in BOOLEAN : StWrite(t, ok)
    \/ \E ok \in BOOLEAN : RbWrite(t, ok)
    \/ \E ok \in BOOLEAN : SyncStore(t, ok)
    \/ \E ok \in BOOLEAN : ClearStoredIndex(t, ok)
    \/ \E ok \in BOOLEAN : ClearStoredItems(t, ok)

\* A storage that need not answer a read, and an export that need not deliver.
SpecNoAnswer == SpecFault /\ WF_vars(\E t \in Tasks : Continues(t))

\* C14: every call of the engine returns, also when a storage read is never
\* answered or the export of the index never delivers its data.
C14_EveryCallReturns == \A t \in Tasks : tasks[t].pc # "idle" ~> tasks[t].pc = "idle"

\* The text the index holds for the id, if any.
Indexed(id) == {index[i].content : i \in {j \in DOMAIN index : index[j].id = id}}

\* C15: when a write to the backing store fails during addItem, removeItem or
\* rebuildIndex, the call returns without raising, and the map and the index
\* hold what the call put there: the added item under its id, nothing under
\* the removed id, the documents of the stored collections after a rebuild.
C15_WriteFailureContained ==
    /\ Returned("addItem") /\ last.wfail =>
          /\ ~last.threw
          /\ ItemsHas(items, last.id) /\ ItemsGet(items, last.id) = last.item
          /\ Indexed(last.id) = {last.item.content}
    /\ Returned("removeItem") /\ last.wfail =>
          /\ ~last.threw
          /\ ~ItemsHas(items, last.id)
          /\ Indexed(last.id) = {}
    /\ Returned("rebuildIndex") /\ last.wfail =>
          /\ ~last.threw
          /\ items = ConvertAll(last.srcs)
          /\ \A i \in DOMAIN items :
                Indexed(items[i].id) =
                    IF items[i].id \in last.raising THEN {} ELSE {items[i].content}

\* An addItem returned whose write of the document collection failed: the
\* persisted collection lacks the item that the map holds.
C15_Witness ==
    /\ Returned("addItem")
    /\ last.wfail
    /\ \A i \in DOMAIN stIndexedItems : stIndexedItems[i].id # last.id
    /\ ItemsHas(items, last.id)

\* C16: no call of the engine raises to its caller, whatever fails in the
\* storage, in the index or in the stored data.
C16_NoCallRaises == last.pc = "done" => ~last.threw

\* C17: after a rebuild during which the indexing of an item failed, that
\* item is neither in the index nor in the map (so it is neither found nor
\* counted), and every other item of the batch is in both.
C17_FailedItemSkipped ==
    Returned("rebuildIndex") /\ ~last.threw =>
        \A i \in DOMAIN ConvertAll(last.srcs) :
            \E item \in {ConvertAll(last.srcs)[i]} :
                IF item.id \in last.raising
                THEN ~ItemsHas(items, item.id) /\ Indexed(item.id) = {}
                ELSE ItemsHas(items, item.id) /\ Indexed(item.id) = {item.content}

\* The documents of the collection the browser holds for a provider.
DocsOf(p, browser) ==
    CASE p = "bookmarks" -> ConvertBookmarks(browser.bookmarks)
      [] p = "history" -> ConvertHistory(browser.history)
      [] p = "readingList" -> ConvertReadingList(browser.readingList)

\* No storage request and no index.add failed during the call that returned.
Undisturbed == ~last.rfail /\ ~last.wfail /\ last.raising = {}

\* C18: a sync never raises, whichever providers fail; when the storage and
\* the index work, it succeeds, stores an empty collection for each failing
\* provider and what the browser holds for the others, and the map, the
\* index and the persisted collection hold exactly the documents of the
\* providers that did not fail.
C18_FailingProviderIsEmpty ==
    Returned("sync") =>
        /\ ~last.threw
        /\ Undisturbed =>
              /\ last.success
              /\ \A p \in Providers :
                    stSources[p] = IF p \in last.down THEN <<>> ELSE last.browser[p]
              /\ \A p \in Providers :
                    \A i \in DOMAIN DocsOf(p, last.browser) :
                        \E d \in {DocsOf(p, last.browser)[i]} :
                            IF p \in last.down
                            THEN ~ItemsHas(items, d.id) /\ Indexed(d.id) = {}
                            ELSE /\ ItemsHas(items, d.id) /\ ItemsGet(items, d.id) = d
                                 /\ Indexed(d.id) = {d.content}
              /\ \A i \in DOMAIN items :
                    \E p \in Providers \ last.down :
                        \E j \in DOMAIN DocsOf(p, last.browser) :
                            items[i] = DocsOf(p, last.browser)[j]
              /\ stIndexedItems = items

\* A sync returned during which the history provider failed while the browser
\* held history entries, and the documents of another provider are indexed.
C18_Witness ==
    /\ Returned("sync")
    /\ Undisturbed
    /\ last.down = {"history"}
    /\ last.browser.history # <<>>
    /\ items # <<>>

(***************************************************************************)
(* clearIndex and getStats, one call at a time on a storage that works.    *)
(***************************************************************************)
\* The last modifying call that returned was clearIndex, and no modifying
\* call has started since.
Cleared ==
    /\ hist # <<>>
    /\ hist[Len(hist)].op = "clearIndex"
    /\ \A t \in Tasks : tasks[t].op \in {"none", "initialize", "search", "getStats"}

\* C19: after clearIndex has returned and until the next modifying call, the
\* map and the text index are empty, the persisted collection and the
\* persisted index are empty, getStats counts no document and every search
\* returns the empty list, also once a lazy initialization has run.
C19_ClearWipes ==
    Cleared =>
        /\ items = <<>>
        /\ IndexIds(index) = {}
        /\ stIndexedItems = <<>>
        /\ stSearchIndex = <<>>
        /\ Returned("getStats") => last.stats.totalItems = 0
        /\ Returned("search") => last.results = <<>>

\* A rebuild filled a store that was not initialized, clearIndex followed,
\* and a search with a query then ran the lazy initialization.
C19_Witness ==
    /\ Cleared
    /\ Len(hist) = 2
    /\ hist[1].op = "rebuildIndex"
    /\ hist[1].srcs # SrcEmpty
    /\ Returned("search")
    /\ ~Blank(last.query)
    /\ last.lazy
    /\ isInitialized

\* C20: the count getStats returns is the number of documents the map holds
\* when it returns, also directly after a rebuildIndex on a store on which
\* no initialization has run.
C20_StatsCountsMap == Returned("getStats") => last.stats.totalItems = Len(items)

(***************************************************************************)
(* updateItem and removeItem, one call at a time on a storage that works.  *)
(***************************************************************************)
\* The last modifying call that returned was op, and no modifying call has
\* started since.
LastModified(op) ==
    /\ hist # <<>>
    /\ hist[Len(hist)].op = op
    /\ \A t \in Tasks : tasks[t].op \in {"none", "initialize", "search", "getStats"}

\* The documents of a list that have the id.
WithId(list, id) == SelectSeq(list, LAMBDA d : d.id = id)

\* C21: after updateItem(item) has returned, the map and the persisted
\* collection each hold exactly one document with the item's id, and it is
\* the new item, field for field.
C21_UpdateReplaces ==
    LastModified("updateItem") =>
        \E item \in {hist[Len(hist)].item} :
            /\ WithId(items, item.id) = <<item>>
            /\ WithId(stIndexedItems, item.id) = <<item>>

\* An item was added and then updated to a version that differs in title,
\* content, type and timestamp.
C21_Witness ==
    /\ LastModified("updateItem")
    /\ Quiescent
    /\ Len(hist) = 2
    /\ hist[1].op = "addItem"
    /\ hist[1].item = N1
    /\ hist[2].item = N1b

\* Task t takes a step of a removeItem whose id is neither in the map nor in
\* the persisted collection.
RemoveAbsentStep(t) ==
    /\ tasks'[t] # tasks[t]
    /\ \E r \in {IF tasks[t].op = "removeItem" THEN tasks[t] ELSE tasks'[t]} :
          /\ r.op = "removeItem"
          /\ r.id \notin ItemIds(items)
          /\ r.id \notin ItemIds(stIndexedItems)

\* The step leaves the map, the text index and the persisted collection as
\* they were, and does not end the call with an error.
RemoveFrame(t) ==
    /\ UNCHANGED <<index, items, stIndexedItems>>
    /\ ~tasks'[t].threw

\* C22, as the specification states it: removeItem of an id that is not in
\* the store changes neither the map nor the text index nor the persisted
\* collection and raises no error, in every state, that of a store not yet
\* initialized included.
C22_RemoveAbsentFrame ==
    [][\A t \in Tasks : RemoveAbsentStep(t) => RemoveFrame(t)]_vars

\* C22, amended: the same for a removeItem that is called on an initialized
\* store.
C22_RemoveAbsentFrameReady ==
    [][\A t \in Tasks : (RemoveAbsentStep(t) /\ CalledReady(t)) => RemoveFrame(t)]_vars

\* A removeItem called on an initialized store that holds documents is about
\* to write back the persisted collection, which, like the map, has no
\* document of the id.
C22_Witness ==
    \E t \in Tasks :
        /\ tasks[t].op = "removeItem"
        /\ tasks[t].pc = "st_write"
        /\ ~tasks[t].lazy
        /\ items # <<>>
        /\ tasks[t].cur # <<>>
        /\ tasks[t].id \notin ItemIds(items) \cup ItemIds(tasks[t].cur)

(***************************************************************************)
(* A rebuild over a single bookmark, then a search.                        *)
(***************************************************************************)
\* The bookmark trees with one bookmark that has a url (a title of two
\* tokens, a title of a stop word and a type word, a bookmark in a folder),
\* the queries and the limits of the searches.
One ==
    [marks |-> {[id |-> "1", title |-> Str.Cat \o <<" ">> \o Str.Dog, url |-> Str.u1,
                 dateAdded |-> 90, children |-> <<>>],
                [id |-> "7", title |-> <<"T","h","e"," ","H","i","s","t","o","r","y">>,
                 url |-> Str.u2, dateAdded |-> 0, children |-> <<>>],
                Raw.folder},
     queries |-> {Str.Cat, <<"d","o","g">>, <<"c","a">>, Word.history, <<"h","i","s">>,
                  Word.my \o <<" ">> \o Str.cat},
     limits |-> {1, 20}]

NextOne ==
    \/ \E b \in One.marks : SetSources([SrcEmpty EXCEPT !.bookmarks = <<b>>])
    \/ CallRebuild(1)
    \/ RbRead(1, TRUE)
    \/ RbBuild(1, FALSE, {})
    \/ Persist(1, TRUE)
    \/ RbWrite(1, TRUE)
    \/ \E q \in One.queries, n \in One.limits : CallSearch(1, q, n, FALSE)
    \/ InitRead(1, TRUE)
    \/ InitReplay(1)
    \/ ResumeSearch(1, FALSE)

\* Calls one after the other; the engine starts ready or not, over any of
\* the stored collections.
SpecOne == InitSeq /\ [][NextOne]_vars

\* The last completed modifying call was a rebuild that read the single
\* bookmark b, and a search has returned since.
SearchedAfterRebuildOf(b) ==
    /\ LastModified("rebuildIndex")
    /\ hist[Len(hist)].srcs = [SrcEmpty EXCEPT !.bookmarks = <<b>>]
    /\ Returned("search")

\* The bookmark of the tree b that has a url.
Leaf(b) == IF b.url # <<>> THEN b ELSE b.children[1]

\* The query is answered by the keyword strategy, which extracts one term
\* from it, and that term is the start of a token of the title.
KeywordTermOf(query, title) ==
    /\ ~IsListAllQuery(query)
    /\ \E terms \in {SearchTerms(CleanQuery(query))} :
          /\ Len(terms) = 1
          /\ \E tok \in Range(Encode(title)) : StartsWithAt(tok, 1, terms[1])

CollectionKeys ==
    {STORAGE_KEYS.BOOKMARKS, STORAGE_KEYS.HISTORY, STORAGE_KEYS.READING_LIST,
     STORAGE_KEYS.INDEXED_ITEMS, STORAGE_KEYS.CHAT_SESSIONS}

\* { ...a, ...b } for objects held as functions from their keys.
Spread(a, b) ==
    [k \in DOMAIN a \cup DOMAIN b |-> IF k \in DOMAIN b THEN b[k] ELSE a[k]]

\* What the calls of the model store and ask: the value each setter writes
\* under its key (a list, a time, a serialized index), the partial settings
\* of setSettings, and the settings an earlier version left in the area.
Stored ==
    [list |-> <<"x">>,
     value |-> [k \in Range(STORAGE_KEYS) |->
                   IF k \in CollectionKeys THEN <<"x">>
                   ELSE IF k = STORAGE_KEYS.LAST_SYNC_TIME THEN 7 ELSE <<"i">>],
     partials |-> {[maxResults |-> 5], [syncInterval |-> 10],
                   [enabledSources |-> [bookmarks |-> FALSE, history |-> TRUE,
                                        readingList |-> TRUE]],
                   [maxResults |-> 5, syncInterval |-> 10]},
     old |-> [maxResults |-> 7]]

\* A private get that lets the rejection of the read through.
StorageGetRethrow(area, key, ok) ==
    [threw |-> ~ok, value |-> IF ok THEN area[key] ELSE <<>>]

\* StorageManager.get: result[key] || null, and null when the read is
\* rejected (<<>> stands for null).
StorageGet(area, key, ok) ==
    [threw |-> FALSE, value |-> IF ok THEN area[key] ELSE <<>>]

\* A private set that reports success whatever the store said.
StorageSetBlind(area, key, value, ok) ==
    [threw |-> FALSE, success |-> TRUE,
     area |-> IF ok THEN [area EXCEPT ![key] = <<value>>] ELSE area]

\* StorageManager.set; a write the store rejects changes nothing.
StorageSet(area, key, value, ok) ==
    [threw |-> FALSE, success |-> ok,
     area |-> IF ok THEN [area EXCEPT ![key] = <<value>>] ELSE area]

\* (await this.get(key)) || []
GetCollection(area, key, ok) ==
    Bind(StorageGet(area, key, ok), LAMBDA g :
        [threw |-> g.threw, value |-> IF g.value = <<>> THEN <<>> ELSE g.value[1]])

\* getSettings: the defaults overlaid with what is stored, or the defaults
\* when the race is lost to the 2 s timer; how is "ok", "fail" (the read
\* is rejected, get returns null) or "timeout".
GetSettings(area, how) ==
    Bind(StorageGet(area, STORAGE_KEYS.SETTINGS, how = "ok"), LAMBDA g :
        IF how = "timeout" \/ g.threw THEN DEFAULT_SETTINGS
        ELSE Spread(DEFAULT_SETTINGS, IF g.value = <<>> THEN <<>> ELSE g.value[1]))

\* A call of the StorageManager returns.
Return(r) ==
    /\ last' = [r EXCEPT !.pc = "done"]
    /\ tasks' = [tasks EXCEPT ![1] = IdleTask]
    /\ UNCHANGED <<engineVars, storeVars, initRuns, hist, calls, mode,
                   rateLimiter, chats, chatPort>>

\* getBookmarks, getHistory, getReadingList, getIndexedItems, getChatSessions
CallGetCollection(key, ok) ==
    /\ tasks[1].pc = "idle"
    /\ \E g \in {GetCollection(local, key, ok)} :
          Return([IdleTask EXCEPT !.op = "getCollection", !.key = key, !.rfail = ~ok,
                                  !.threw = g.threw, !.value = g.value])
    /\ UNCHANGED local

\* setBookmarks, ..., setChatSessions, setLastSyncTime, setSearchIndex
CallSet(key, ok) ==
    /\ tasks[1].pc = "idle"
    /\ \E w \in {StorageSet(local, key, Stored.value[key], ok)} :
          /\ local' = w.area
          /\ Return([IdleTask EXCEPT !.op = "set", !.key = key, !.wfail = ~ok,
                                     !.value = Stored.value[key],
                                     !.threw = w.threw, !.success = w.success])

\* clearAllData
CallClearAllData(ok) ==
    /\ tasks[1].pc = "idle"
    /\ local' = IF ok THEN [k \in DOMAIN local |-> <<>>] ELSE local
    /\ Return([IdleTask EXCEPT !.op = "clearAllData", !.wfail = ~ok, !.success = ok])

CallGetSettings(how) ==
    /\ tasks[1].pc = "idle"
    /\ Return([IdleTask EXCEPT !.op = "getSettings", !.rfail = (how # "ok"),
                               !.settings = GetSettings(local, how)])
    /\ UNCHANGED local

\* setSettings up to its write: currentSettings and updatedSettings.
CallSetSettings(partial, how) ==
    /\ tasks[1].pc = "idle"
    /\ tasks' = [tasks EXCEPT ![1] =
                    [IdleTask EXCEPT !.op = "setSettings", !.pc = "ss_set",
                                     !.partial = partial, !.rfail = (how # "ok"),
                                     !.settings = Spread(GetSettings(local, how), partial)]]
    /\ last' = IdleTask
    /\ UNCHANGED <<engineVars, storeVars, initRuns, hist, calls, mode, local, rateLimiter, chats, chatPort>>

\* return this.set(STORAGE_KEYS.SETTINGS, updatedSettings)
SsSet(ok) ==
    /\ tasks[1].pc = "ss_set"
    /\ \E w \in {StorageSet(local, STORAGE_KEYS.SETTINGS, tasks[1].settings, ok)} :
          /\ local' = w.area
          /\ Return([tasks[1] EXCEPT !.wfail = ~ok, !.threw = w.threw,
                                     !.success = w.success])

NextStore ==
    \/ \E key \in CollectionKeys, ok \in BOOLEAN : CallGetCollection(key, ok)
    \/ \E key \in Range(STORAGE_KEYS) \ {STORAGE_KEYS.SETTINGS}, ok \in BOOLEAN :
          CallSet(key, ok)
    \/ \E ok \in BOOLEAN : CallClearAllData(ok)
    \/ \E how \in {"ok", "fail", "timeout"} : CallGetSettings(how)
    \/ \E partial \in Stored.partials, how \in {"ok", "fail", "timeout"} :
          CallSetSettings(partial, how)
    \/ \E ok \in BOOLEAN : SsSet(ok)

\* The calls of the StorageManager, one at a time, over an area that is empty
\* or holds settings written before; every read and write may be rejected.
SpecStore ==
    /\ index = NewIndex /\ items = <<>> /\ isInitialized = FALSE
    /\ stSources = SrcEmpty /\ stIndexedItems = <<>> /\ stSearchIndex = <<>>
    /\ tasks = [t \in Tasks |-> IdleTask] /\ last = IdleTask
    /\ initRuns = 0 /\ calls = 0 /\ hist = <<>> /\ mode = "store"
    /\ local \in {[k \in Range(STORAGE_KEYS) |->
                       IF k = STORAGE_KEYS.SETTINGS THEN old ELSE <<>>] :
                   old \in {<<>>, <<Stored.old>>}}
    /\ rateLimiter = RateLimiter
    /\ chats = [r \in Requests |-> IdleChat]
    /\ chatPort = ChatPortManager(TRUE)
    /\ [][NextStore]_vars

\* C24: a collection getter returns the stored value when the key is present
\* and the read works, the empty list when the key is absent or the read is
\* rejected, and never raises.
C24_GettersDegrade ==
    Returned("getCollection") =>
        /\ ~last.threw
        /\ last.value = IF ~last.rfail /\ local[last.key] # <<>>
                        THEN local[last.key][1] ELSE <<>>

C24_Witness ==
    /\ Returned("getCollection")
    /\ last.rfail
    /\ local[last.key] = <<Stored.list>>
    /\ last.value = <<>>

\* The step is the return of a setter, of setSettings or of clearAllData.
WriteReturns ==
    last'.pc = "done" /\ last'.op \in {"set", "setSettings", "clearAllData"}

\* C25: every setter and clearAllData returns true when the store accepted
\* the operation and false when it rejected it, never raises, and a rejected
\* write leaves what was stored unchanged.
C25_WritesReportFailure ==
    [][WriteReturns =>
          /\ ~last'.threw
          /\ last'.success = ~last'.wfail
          /\ last'.wfail => local' = local]_vars

C25_Witness ==
    /\ Returned("set")
    /\ last.wfail
    /\ ~last.success
    /\ local[last.key] = <<>>
    /\ local[STORAGE_KEYS.SETTINGS] # <<>>

\* The value of the setting k: what is stored, else the default.
SettingOf(area, k) ==
    IF area[STORAGE_KEYS.SETTINGS] # <<>> /\ k \in DOMAIN area[STORAGE_KEYS.SETTINGS][1]
    THEN area[STORAGE_KEYS.SETTINGS][1][k]
    ELSE DEFAULT_SETTINGS[k]

\* getSettings has returned the defaults overlaid with what is stored, or
\* the defaults when the read failed or timed out.
GetSettingsOverlays ==
    Returned("getSettings") =>
        /\ DOMAIN last.settings = DOMAIN DEFAULT_SETTINGS
        /\ \A k \in DOMAIN DEFAULT_SETTINGS :
              last.settings[k] = IF last.rfail THEN DEFAULT_SETTINGS[k]
                                 ELSE SettingOf(local, k)

\* A setSettings whose write was accepted has changed the keys of its partial
\* and no other setting.
SetSettingsKeepsOthers ==
    (last'.pc = "done" /\ last'.op = "setSettings" /\ ~last'.wfail) =>
        \A k \in DOMAIN DEFAULT_SETTINGS :
            SettingOf(local', k) = IF k \in DOMAIN last'.partial THEN last'.partial[k]
                                   ELSE SettingOf(local, k)

\* C26: getSettings returns the default settings overlaid with the stored
\* settings (the defaults alone when nothing is stored or the read fails or
\* times out), and setSettings(partial) changes only the keys given in
\* partial: every other setting keeps its previous value.
C26_SettingsOverlay ==
    [][GetSettingsOverlays' /\ SetSettingsKeepsOthers]_vars

\* The same with setSettings held to the calls whose read of the current
\* settings worked.
C26_SettingsOverlayRead ==
    [][GetSettingsOverlays' /\ (~last'.rfail => SetSettingsKeepsOthers)]_vars

(***************************************************************************)
(* The two strategies of search.                                           *)
(***************************************************************************)
\* The first of the listAllPatterns: the listing phrases.
ListingPhrase(query) ==
    \E q \in {Lower(query)} :
        \/ Contains(q, Word.list) \/ Contains(q, Word.show) \/ Contains(q, Word.display)
        \/ ContainsThen3(q, Word.what, Word.do, Word.have)
        \/ ContainsThen(q, Word.wode, Word.youshenme)
        \/ ContainsThen(q, Word.xianshi, Word.suoyou)
        \/ Contains(q, Word.liechu)

\* A search over a map that is not empty has returned from its try block.
Answered ==
    /\ Returned("search")
    /\ ~last.fails
    /\ ~Blank(last.query)
    /\ items # <<>>

\* C27: a query is answered by the enumeration strategy if and only if it
\* matches a listing phrase; a query with a source-type word and no listing
\* phrase is answered by the keyword strategy.
C27_IntentByListingPhrase ==
    Answered =>
        last.results = IF ListingPhrase(last.query)
                       THEN ListAllResults(items, last.query, last.lim)
                       ELSE KeywordResults(items, index, last.query, last.lim)

\* A search answered by the keyword strategy has returned.
KeywordAnswered == Answered /\ ~IsListAllQuery(last.query)

\* The ids of the per-term searches of the returned search, one after the other.
TermIds ==
    Bind(SearchTerms(CleanQuery(last.query)), LAMBDA ts :
        Flatten([i \in DOMAIN ts |-> IndexSearch(index, ts[i], last.lim * 2)]))

\* The raw match list of the returned search.
RawList == RawMatches(index, SearchTerms(CleanQuery(last.query)), last.lim)

\* Where id is first seen in the list l.
FirstSeen(l, id) == CHOOSE i \in DOMAIN l : l[i] = id /\ \A j \in 1..(i - 1) : l[j] # id

\* (score + relevance) * 2 * limit of the document at position i of the raw
\* match list.
KeyAt(raw, i) ==
    RankKey([score2 |-> Score2(CleanQuery(last.query), ItemsGet(items, raw[i])),
             pos |-> i - 1], last.lim)

\* The raw match list is the union of the ids of the per-term searches, in
\* first-seen order, without duplicates.
RawIsUnion ==
    \E raw \in {RawList}, seen \in {TermIds} :
        /\ Range(raw) = Range(seen)
        /\ \A i, j \in DOMAIN raw :
              i < j => raw[i] # raw[j] /\ FirstSeen(seen, raw[i]) < FirstSeen(seen, raw[j])

RawIsCapped == Len(RawList) <= 2 * last.lim

\* Every id of the raw match list that has a document is returned, unless
\* every returned result ranks at least as high.
RawIsEligible ==
    \E raw \in {RawList} :
        \A i \in DOMAIN raw :
            (ItemsHas(items, raw[i]) /\ raw[i] \notin Range(ResultIds(last.results)))
                => \A k \in DOMAIN last.results :
                      RankKey(last.results[k], last.lim) >= KeyAt(raw, i)

\* C28: in the keyword strategy the raw match list is the union of the ids of
\* the per-term searches in first-seen order without duplicates, it holds at
\* most 2 x limit ids, and every id in it that has a document is eligible for
\* scoring.
C28_RawMatchList ==
    KeywordAnswered => RawIsUnion /\ RawIsCapped /\ RawIsEligible

\* The bonuses of a document against the cleaned query, doubled: 10 for a
\* title equal to it, 5 for a title and 2 for a content that contains it
\* (letter case ignored), 1 for an age under 30 days, 0.5 for a bookmark.
Bonuses2(cq, item) ==
    LET q == Lower(cq)
        title == Lower(item.title)
        content == Lower(item.content)
    IN  {b \in {<<"exact", 20>>, <<"title", 10>>, <<"content", 4>>, <<"recent", 2>>,
                <<"bookmark", 1>>} :
            \/ b[1] = "exact" /\ title = q
            \/ b[1] = "title" /\ Contains(title, q)
            \/ b[1] = "content" /\ Contains(content, q)
            \/ b[1] = "recent" /\ Now - item.timestamp < 30
            \/ b[1] = "bookmark" /\ item.type = "bookmark"}

RECURSIVE SumOf(_)
SumOf(bs) == IF bs = {} THEN 0 ELSE LET b == CHOOSE b \in bs : TRUE IN b[2] + SumOf(bs \ {b})

\* C29: keyword results are in non-increasing order of score + relevance, the
\* score being the sum of the bonuses that apply against the cleaned query
\* and the relevance (limit - position) / limit for the position of the
\* document in the raw match list.
C29_KeywordRanking ==
    KeywordAnswered =>
        \E res \in {last.results}, raw \in {RawList}, cq \in {CleanQuery(last.query)} :
            /\ \A k \in DOMAIN res :
                  /\ res[k].item.id \in Range(raw)
                  /\ res[k].pos = FirstSeen(raw, res[k].item.id) - 1
                  /\ res[k].score2 = SumOf(Bonuses2(cq, res[k].item))
            /\ \A k, l \in DOMAIN res :
                  k < l => res[k].score2 * last.lim + 2 * (last.lim - res[k].pos)
                              >= res[l].score2 * last.lim + 2 * (last.lim - res[l].pos)

\* Two results, the exact title first although it came second in the raw
\* match list.
C29_Witness ==
    /\ KeywordAnswered
    /\ Len(last.results) = 2
    /\ last.results[1].pos = 1
    /\ Lower(last.results[1].item.title) = CleanQuery(last.query)
    /\ last.results[1].item.title # CleanQuery(last.query)

\* C30: enumeration results carry one fixed base score and a relevance that
\* depends on the position only and strictly decreases along the list, so
\* that ranking them by score + relevance keeps the order, newest first, in
\* which they were selected.
C30_EnumerationOrderKept ==
    Enumerated =>
        \E res \in {last.results} :
            /\ \A k \in DOMAIN res : res[k].score2 = 20 /\ res[k].pos = k - 1
            /\ \A k, l \in DOMAIN res :
                  k < l => /\ last.lim - res[k].pos > last.lim - res[l].pos
                           /\ RankKey(res[k], last.lim) > RankKey(res[l], last.lim)
                           /\ res[k].item.timestamp >= res[l].item.timestamp
            /\ SortResults(res, last.lim) = res

C30_Witness ==
    /\ Enumerated
    /\ Len(last.results) = 3
    /\ last.results[1].item.timestamp > last.results[2].item.timestamp
    /\ last.results[2].item.timestamp = last.results[3].item.timestamp

(***************************************************************************)
(* Normalization: rebuildIndex over raw collections of every shape.        *)
(***************************************************************************)
\* The raw collections a rebuild may read: bookmark trees (a bookmark in a
\* folder, one two folders deep next to an untitled one, a bookmark that
\* has a child), history records (titled, untitled, and two that came
\* without a native id, which getHistory holds as ''), reading-list records
\* (one with an empty title).
Norm ==
    [bookmarks |->
        {<<>>, <<Raw.folder>>,
         <<[id |-> "10", title |-> <<"G">>, url |-> <<>>, dateAdded |-> 0,
            children |-> <<[id |-> "11", title |-> <<>>, url |-> Str.u2, dateAdded |-> 0,
                            children |-> <<>>],
                           [id |-> "12", title |-> <<"H">>, url |-> <<>>, dateAdded |-> 0,
                            children |-> <<[id |-> "13", title |-> Str.Dog, url |-> Str.u3,
                                            dateAdded |-> 70, children |-> <<>>]>>]>>]>>,
         <<Raw.folder,
           [id |-> "14", title |-> Str.cow, url |-> Str.u4, dateAdded |-> 60,
            children |-> <<[id |-> "15", title |-> Str.cats, url |-> Str.u1,
                            dateAdded |-> 65, children |-> <<>>]>>]>>},
     history |->
        {<<>>, <<Raw.h2, Raw.h3>>,
         <<[id |-> "4", title |-> Str.Cat, url |-> <<>>, lastVisitTime |-> 30], Raw.h2>>,
         <<[id |-> "", title |-> Str.Cat, url |-> Str.u1, lastVisitTime |-> 0],
           [id |-> "", title |-> Str.Dog, url |-> Str.u4, lastVisitTime |-> 40]>>},
     readingList |->
        {<<>>, <<Raw.r1>>,
         <<Raw.r1, [title |-> <<>>, url |-> Str.u2, creationTime |-> 85]>>}]

NextNorm ==
    \/ CallRebuild(1)
    \/ RbRead(1, TRUE)
    \/ RbBuild(1, FALSE, {})
    \/ Persist(1, TRUE)
    \/ RbWrite(1, TRUE)

\* Rebuilds, one at a time, of a new engine over the raw collections that a
\* sync has stored.
SpecNorm ==
    /\ index = NewIndex /\ items = <<>> /\ isInitialized = FALSE
    /\ stSources \in [bookmarks : Norm.bookmarks, history : Norm.history,
                      readingList : Norm.readingList]
    /\ stIndexedItems = <<>> /\ stSearchIndex = <<>>
    /\ tasks = [t \in Tasks |-> IdleTask] /\ last = IdleTask
    /\ initRuns = 0 /\ calls = 0 /\ hist = <<>> /\ mode = "seq"
    /\ local = [k \in Range(STORAGE_KEYS) |-> <<>>]
    /\ rateLimiter = RateLimiter
    /\ chats = [r \in Requests |-> IdleChat]
    /\ chatPort = ChatPortManager(TRUE)
    /\ [][NextNorm]_vars

\* The nodes of a bookmark tree.
RECURSIVE NodesOf(_)
NodesOf(b) == {b} \cup UNION {NodesOf(b.children[i]) : i \in DOMAIN b.children}

\* The raw collections the last completed rebuild read, and what the
\* normalizer emits for them.
RebuiltFrom == hist[Len(hist)].srcs

Emitted == ConvertAll(RebuiltFrom)

OfType(docs, type) == {i \in DOMAIN docs : docs[i].type = type}

TitleOrUntitled(title) == IF title = <<>> THEN S_Untitled ELSE title

\* One document per bookmark node with a url, at any depth.
EmitsBookmarks(docs, srcs) ==
    \E nodes \in {{n \in UNION {NodesOf(srcs.bookmarks[i]) : i \in DOMAIN srcs.bookmarks} :
                     n.url # <<>>}} :
        /\ Cardinality(OfType(docs, "bookmark")) = Cardinality(nodes)
        /\ \A n \in nodes :
              \E i \in OfType(docs, "bookmark") :
                  /\ docs[i].id = <<"bookmark_", n.id>>
                  /\ docs[i].url = n.url
                  /\ docs[i].title = TitleOrUntitled(n.title)

\* One document per history record with a url and a title.
EmitsHistory(docs, srcs) ==
    \E kept \in {{j \in DOMAIN srcs.history :
                    srcs.history[j].url # <<>> /\ srcs.history[j].title # <<>>}} :
        /\ Cardinality(OfType(docs, "history")) = Cardinality(kept)
        /\ \A j \in kept :
              \E i \in OfType(docs, "history") :
                  /\ docs[i].id = <<"history_", srcs.history[j].id>>
                  /\ docs[i].url = srcs.history[j].url
                  /\ docs[i].title = srcs.history[j].title

\* One document per reading-list record; title says whether a missing
\* title of a record is expected as 'Untitled'.
EmitsReadingList(docs, srcs, untitled) ==
    /\ Cardinality(OfType(docs, "reading-list")) = Len(srcs.readingList)
    /\ \A j \in DOMAIN srcs.readingList :
          \E i \in OfType(docs, "reading-list") :
              /\ docs[i].id = <<"reading_", srcs.readingList[j].url>>
              /\ docs[i].url = srcs.readingList[j].url
              /\ docs[i].title = IF untitled THEN TitleOrUntitled(srcs.readingList[j].title)
                                 ELSE srcs.readingList[j].title

\* C31: normalization emits exactly one document per bookmark node that has
\* a url, at any depth, one per history record that has url and title, and
\* one per reading-list record; the ids are "bookmark_" and "history_"
\* followed by the native id and "reading_" followed by the url, and a
\* missing title becomes "Untitled".
C31_NormalizationEmits ==
    LastModified("rebuildIndex") =>
        /\ Len(Emitted) = Cardinality(OfType(Emitted, "bookmark"))
                          + Cardinality(OfType(Emitted, "history"))
                          + Cardinality(OfType(Emitted, "reading-list"))
        /\ EmitsBookmarks(Emitted, RebuiltFrom)
        /\ EmitsHistory(Emitted, RebuiltFrom)
        /\ EmitsReadingList(Emitted, RebuiltFrom, TRUE)

\* C32: the documents the normalizer emits have pairwise distinct ids, so
\* that after the rebuild the map holds as many documents as were emitted,
\* and every document with a url has a content that is not empty.
C32_IdsUnique ==
    (LastModified("rebuildIndex") /\ Quiescent) =>
        /\ \A i, j \in DOMAIN Emitted : i # j => Emitted[i].id # Emitted[j].id
        /\ Len(items) = Len(Emitted)
        /\ \A i \in DOMAIN Emitted : Emitted[i].url # <<>> => Emitted[i].content # <<>>

(***************************************************************************)
(* Calls that interleave.                                                  *)
(***************************************************************************)
\* The step is the one in which a search reads the index and the map and
\* returns.
SearchReads ==
    /\ last'.op = "search" /\ last'.pc = "done" /\ ~last'.fails /\ ~Blank(last'.query)
    /\ \/ \E t \in Tasks : tasks[t].op = "search" /\ tasks[t].pc = "body"
                           /\ tasks'[t].pc = "idle"
       \/ tasks' = tasks /\ calls' # calls

\* A call that adds or removes a document is in flight.
Maintaining ==
    \E t \in Tasks : tasks[t].op \in {"addItem", "removeItem"} /\ tasks[t].pc # "idle"

\* C33: a search that interleaves with addItem and removeItem calls sees no
\* corrupted state: every result is a whole document of the map as it is
\* when the search reads it, no id is returned twice, the search does not
\* raise, and every id the text index holds has its document in the map.
C33_SearchSeesWholeState ==
    [][(SearchReads /\ Maintaining) =>
          \E res \in {last'.results} :
              /\ ~last'.threw
              /\ \A k \in DOMAIN res : res[k].item \in Range(items)
              /\ \A k, l \in DOMAIN res : k # l => res[k].item.id # res[l].item.id
              /\ IndexIds(index) \subseteq ItemIds(items)]_vars

C33_Witness ==
    /\ Returned("search")
    /\ last.results # <<>>
    /\ \E t \in Tasks : /\ tasks[t].op = "removeItem" /\ tasks[t].pc = "st_write"
                        /\ tasks[t].id \notin last.seen
                        /\ tasks[t].id \in ItemIds(stIndexedItems)

NextMaint ==
    \/ \E t \in Tasks, item \in AddItems : CallAddItem(t, item)
    \/ \E t \in Tasks, id \in RemoveIds : CallRemoveItem(t, id)
    \/ \E t \in Tasks : InitRead(t, TRUE)
    \/ \E t \in Tasks : InitReplay(t)
    \/ \E t \in Tasks : ResumeAdd(t)
    \/ \E t \in Tasks : ResumeRemove(t)
    \/ \E t \in Tasks : Persist(t, TRUE)
    \/ \E t \in Tasks : StRead(t, TRUE)
    \/ \E t \in Tasks : StWrite(t, TRUE)
    \/ \E t \in Tasks : CallInitialize(t)
    \/ \E t \in Tasks : CallRebuild(t)
    \/ \E t \in Tasks : RbRead(t, TRUE)
    \/ \E t \in Tasks : RbBuild(t, FALSE, {})
    \/ \E t \in Tasks : RbWrite(t, TRUE)
    \/ \E srcs \in SourceSets : SetSources(srcs)

\* initialize, rebuildIndex, addItem and removeItem calls that interleave at
\* their awaits, the calls that completed being recorded; a sync may store
\* other raw collections at any time.
SpecMaint == InitWith("both") /\ [][NextMaint]_vars

\* Two calls have been made and have completed, an addItem and a removeItem of
\* another id.
AddedAndRemoved ==
    /\ Quiescent
    /\ calls = 2
    /\ Len(hist) = 2
    /\ {hist[1].op, hist[2].op} = {"addItem", "removeItem"}
    /\ \E a, r \in {hist[1], hist[2]} :
          a.op = "addItem" /\ r.op = "removeItem" /\ a.item.id # r.id

\* C34: once interleaved addItem and removeItem calls on distinct ids have
\* all completed, the persisted document collection and the document map
\* hold the same ids.
C34_PersistedAgrees ==
    AddedAndRemoved => ItemIds(stIndexedItems) = ItemIds(items)

\* Two calls have been made and have completed, a rebuildIndex and an
\* initialize that loaded and replayed.
RebuiltAndInitialized ==
    /\ Quiescent
    /\ calls = 2
    /\ Len(hist) = 1
    /\ hist[1].op = "rebuildIndex"
    /\ initRuns = 1

\* C35: lazy initialization never undoes a rebuild: once a rebuildIndex and
\* an initialize have both finished, in whatever order and however
\* interleaved, the map holds exactly the documents of that rebuild.
C35_InitKeepsRebuild ==
    RebuiltAndInitialized => Range(items) = Range(ConvertAll(hist[1].srcs))

\* C36: after every completed initialize, rebuildIndex, addItem, removeItem,
\* updateItem or clearIndex, also one in which the text index raised, the ids
\* registered in the text index are the keys of the document map.
C36_IndexAndMapInStep ==
    (Quiescent /\ last.pc = "done"
        /\ last.op \in {"initialize", "rebuildIndex", "addItem", "removeItem",
                        "updateItem", "clearIndex"})
        => IndexIds(index) = ItemIds(items)

(***************************************************************************)
(* RateLimiter.waitForToken                                                *)
(***************************************************************************)
\* The clock stops here.
MaxNow == 4

\* this.tokens = Math.min(this.maxTokens, this.tokens + elapsed * this.refillRate)
\* and this.lastRefill = now, with refillRate = 1.
Refill(rl) ==
    [rl EXCEPT !.tokens = Min(rl.maxTokens, rl.tokens + (rl.now - rl.lastRefill)),
               !.lastRefill = rl.now]

\* this.tokens -= 1, and waitForToken returns.
Admit(rl) ==
    [rl EXCEPT !.tokens = @ - TicksPerSecond, !.admitted = Append(@, rl.now)]

\* Caller c calls waitForToken: it is admitted at once, or sets a timer for
\* the time the missing part of a token takes to refill.
WaitForToken(c) ==
    /\ rateLimiter.timer[c] = 0
    /\ rateLimiter' =
           Bind(Refill(rateLimiter), LAMBDA rl :
               IF rl.tokens < TicksPerSecond
               THEN [rl EXCEPT !.timer[c] = rl.now + (TicksPerSecond - rl.tokens)]
               ELSE Admit(rl))
    /\ UNCHANGED <<engineVars, storeVars, tasks, initRuns, last, hist, calls, mode,
                   local, chats, chatPort>>

\* The timer of caller c fires: this.tokens = 1, this.tokens -= 1.
TimerFires(c) ==
    /\ rateLimiter.timer[c] # 0
    /\ rateLimiter.now >= rateLimiter.timer[c]
    /\ rateLimiter' =
           Admit([rateLimiter EXCEPT !.tokens = TicksPerSecond, !.timer[c] = 0])
    /\ UNCHANGED <<engineVars, storeVars, tasks, initRuns, last, hist, calls, mode,
                   local, chats, chatPort>>

\* Date.now() moves on; a timer that is due fires before it does.
Tick ==
    /\ rateLimiter.now < MaxNow
    /\ \A c \in Callers : rateLimiter.timer[c] = 0 \/ rateLimiter.timer[c] > rateLimiter.now
    /\ rateLimiter' = [rateLimiter EXCEPT !.now = @ + 1]
    /\ UNCHANGED <<engineVars, storeVars, tasks, initRuns, last, hist, calls, mode,
                   local, chats, chatPort>>

NextRate ==
    \/ \E c \in Callers : WaitForToken(c)
    \/ \E c \in Callers : TimerFires(c)
    \/ Tick

SpecRate == InitWith("rate") /\ [][NextRate]_vars

\* C37: the token count is never negative, and any two requests the limiter
\* admits are at least one second, the time a token takes to refill, apart.
C37_OnePerRefillPeriod ==
    /\ rateLimiter.tokens >= 0
    /\ \A i, j \in DOMAIN rateLimiter.admitted :
          i < j => rateLimiter.admitted[j] - rateLimiter.admitted[i] >= TicksPerSecond

(***************************************************************************)
(* handleChatRequest: the session of a chat request.                       *)
(***************************************************************************)
\* What the chat requests of the model ask, the session ids they name (none,
\* or the session persisted before) and the session persisted before.
Chat ==
    [queries |-> {"cats", "dogs"},
     sessionIds |-> {<<>>, <<"s", 1>>},
     earlier |-> [id |-> <<"s", 1>>,
                  messages |-> <<[id |-> <<0, 1>>, type |-> "user", content |-> "hello"],
                                 [id |-> <<0, 2>>, type |-> "assistant",
                                  content |-> <<"re", "hello">>]>>]]

\* crypto.randomUUID() for the session of request r: no two are equal.
RandomUUID(r) == <<"new", r>>

\* The user's message and the assistant's message of request r (their ids
\* are random UUIDs, their timestamps are left out).
UserMessage(r, query) == [id |-> <<r, 1>>, type |-> "user", content |-> query]

ChatMessage(r, query) ==
    [id |-> <<r, 2>>, type |-> "assistant", content |-> <<"re", query>>]

\* sessions.find(s => s.id === id), as the index of the session or 0.
FindIndex(sessions, id) ==
    IF \E i \in DOMAIN sessions : sessions[i].id = id
    THEN CHOOSE i \in DOMAIN sessions :
             sessions[i].id = id /\ \A j \in 1..(i - 1) : sessions[j].id # id
    ELSE 0

\* The persisted chat sessions.
PersistedSessions ==
    IF local[STORAGE_KEYS.CHAT_SESSIONS] = <<>> THEN <<>>
    ELSE local[STORAGE_KEYS.CHAT_SESSIONS][1]

\* Request r has its answer (or an error was raised on the way, and the
\* error response is returned): a new session is built and addChatSession
\* called, or getChatSessions is called for the session that is named. The
\* requests of the model name sessions that are persisted.
ChatRequest(r, query, sessionId, answered) ==
    /\ chats[r].pc = "idle"
    /\ sessionId = <<>> \/ FindIndex(PersistedSessions, sessionId) # 0
    /\ chats' = [chats EXCEPT ![r] =
           [IdleChat EXCEPT
               !.query = query, !.sessionId = sessionId, !.answered = answered,
               !.currentSessionId = IF sessionId = <<>> THEN RandomUUID(r) ELSE sessionId,
               !.session = IF answered /\ sessionId = <<>>
                           THEN <<[id |-> RandomUUID(r),
                                   messages |-> <<UserMessage(r, query),
                                                  ChatMessage(r, query)>>]>>
                           ELSE <<>>,
               !.pc = IF ~answered THEN "done"
                      ELSE IF sessionId = <<>> THEN "add_get" ELSE "find_get"]]
    /\ UNCHANGED <<engineVars, storeVars, tasks, initRuns, last, hist, calls, mode,
                   local, rateLimiter, chatPort>>

\* addChatSession: const sessions = await this.getChatSessions();
\* sessions.push(session); and setChatSessions is called.
AddChatSession(r) ==
    /\ chats[r].pc = "add_get"
    /\ chats' = [chats EXCEPT ![r] =
           [@ EXCEPT !.sessions = GetCollection(local, STORAGE_KEYS.CHAT_SESSIONS,
                                                TRUE).value \o chats[r].session,
                     !.pc = "set"]]
    /\ UNCHANGED <<engineVars, storeVars, tasks, initRuns, last, hist, calls, mode,
                   local, rateLimiter, chatPort>>

\* handleChatRequest: const sessions = await storage.getChatSessions(); the
\* session that is found gets the two messages and updateChatSession is
\* called; nothing is done when it is not found.
FindSession(r) ==
    /\ chats[r].pc = "find_get"
    /\ \E sessions \in {GetCollection(local, STORAGE_KEYS.CHAT_SESSIONS, TRUE).value} :
       \E i \in {FindIndex(sessions, chats[r].currentSessionId)} :
          chats' = [chats EXCEPT ![r] =
              IF i = 0 THEN [@ EXCEPT !.pc = "done"]
              ELSE [@ EXCEPT
                       !.session =
                           <<[sessions[i] EXCEPT
                                 !.messages = @ \o <<UserMessage(r, chats[r].query),
                                                     ChatMessage(r, chats[r].query)>>]>>,
                       !.pc = "update_get"]]
    /\ UNCHANGED <<engineVars, storeVars, tasks, initRuns, last, hist, calls, mode,
                   local, rateLimiter, chatPort>>

\* updateChatSession: const sessions = await this.getChatSessions(); the
\* session replaces the one of its id and setChatSessions is called, or false
\* is returned.
UpdateChatSession(r) ==
    /\ chats[r].pc = "update_get"
    /\ \E sessions \in {GetCollection(local, STORAGE_KEYS.CHAT_SESSIONS, TRUE).value} :
       \E i \in {FindIndex(sessions, chats[r].currentSessionId)} :
          chats' = [chats EXCEPT ![r] =
              IF i = 0 THEN [@ EXCEPT !.pc = "done"]
              ELSE [@ EXCEPT !.sessions = [sessions EXCEPT ![i] = chats[r].session[1]],
                             !.pc = "set"]]
    /\ UNCHANGED <<engineVars, storeVars, tasks, initRuns, last, hist, calls, mode,
                   local, rateLimiter, chatPort>>

\* setChatSessions writes the list, and the response is returned.
SetChatSessions(r) ==
    /\ chats[r].pc = "set"
    /\ local' = StorageSet(local, STORAGE_KEYS.CHAT_SESSIONS, chats[r].sessions, TRUE).area
    /\ chats' = [chats EXCEPT ![r] = [@ EXCEPT !.pc = "done"]]
    /\ UNCHANGED <<engineVars, storeVars, tasks, initRuns, last, hist, calls, mode,
                   rateLimiter, chatPort>>

NextSessions ==
    \/ \E r \in Requests, query \in Chat.queries, sessionId \in Chat.sessionIds,
          answered \in BOOLEAN : ChatRequest(r, query, sessionId, answered)
    \/ \E r \in Requests : AddChatSession(r)
    \/ \E r \in Requests : FindSession(r)
    \/ \E r \in Requests : UpdateChatSession(r)
    \/ \E r \in Requests : SetChatSessions(r)

\* Two chat requests over a storage that works, which holds no session or
\* the session of an earlier exchange.
SpecSessions ==
    /\ index = NewIndex /\ items = <<>> /\ isInitialized = FALSE
    /\ stSources = SrcEmpty /\ stIndexedItems = <<>> /\ stSearchIndex = <<>>
    /\ tasks = [t \in Tasks |-> IdleTask] /\ last = IdleTask
    /\ initRuns = 0 /\ calls = 0 /\ hist = <<>> /\ mode = "sessions"
    /\ local \in {[k \in Range(STORAGE_KEYS) |->
                       IF k = STORAGE_KEYS.CHAT_SESSIONS THEN old ELSE <<>>] :
                   old \in {<<>>, <<<<Chat.earlier>>>>}}
    /\ rateLimiter = RateLimiter
    /\ chats = [r \in Requests |-> IdleChat]
    /\ chatPort = ChatPortManager(TRUE)
    /\ [][NextSessions]_vars

\* Session s holds the query of request r followed by its answer.
HoldsExchange(s, r) ==
    \E i \in 1..(Len(s.messages) - 1) :
        /\ s.messages[i] = UserMessage(r, chats[r].query)
        /\ s.messages[i + 1] = ChatMessage(r, chats[r].query)

\* C38: once a chat request has returned its answer, exactly one persisted
\* session holds its query followed by the assistant's message, and it is the
\* session of the response (a new one when no id was given, the named one
\* otherwise), whatever other chat requests are doing.
C38_ChatHistoryKept ==
    \A r \in Requests :
        (chats[r].pc = "done" /\ chats[r].answered) =>
            /\ Cardinality({i \in DOMAIN PersistedSessions :
                               HoldsExchange(PersistedSessions[i], r)}) = 1
            /\ \A i \in DOMAIN PersistedSessions :
                  HoldsExchange(PersistedSessions[i], r) =>
                      PersistedSessions[i].id = chats[r].currentSessionId

(***************************************************************************)
(* ChatPortManager                                                         *)
(***************************************************************************)
\* The ports chrome.runtime.connect hands out in a behaviour.
MaxPorts == 6

\* setupPortConnection: chrome.runtime.connect returns a new port, which is
\* kept and gets its listeners, or raises (ok is false) and the catch block
\* clears the flag.
SetupPortConnection(cp, ok) ==
    IF ok
    THEN [cp EXCEPT !.ports = Append(@, "open"), !.port = Len(cp.ports) + 1,
                    !.isConnected = TRUE]
    ELSE [cp EXCEPT !.isConnected = FALSE]

\* chrome.runtime.connect can hand out a port.
CanConnect(ok) == ok => Len(chatPort.ports) < MaxPorts

\* Port p is disconnected from the other end and its onDisconnect listener
\* runs: the flag and the port are cleared and a reconnection is scheduled.
OnDisconnect(p) ==
    /\ p \in DOMAIN chatPort.ports
    /\ chatPort.ports[p] = "open"
    /\ chatPort' = [chatPort EXCEPT !.ports[p] = "closed", !.isConnected = FALSE,
                                    !.port = 0, !.timers = @ + 1]
    /\ UNCHANGED <<engineVars, storeVars, tasks, initRuns, last, hist, calls, mode,
                   local, rateLimiter, chats>>

\* The callback of setTimeout(..., 1000) in the onDisconnect listener.
ReconnectTimer(ok) ==
    /\ chatPort.timers > 0
    /\ CanConnect(ok)
    /\ chatPort' = SetupPortConnection([chatPort EXCEPT !.timers = @ - 1], ok)
    /\ UNCHANGED <<engineVars, storeVars, tasks, initRuns, last, hist, calls, mode,
                   local, rateLimiter, chats>>

\* sendMessage: the message is posted, or a connection is set up.
SendMessage(ok) ==
    /\ CanConnect(ok)
    /\ chatPort' = IF chatPort.port # 0 /\ chatPort.isConnected THEN chatPort
                   ELSE SetupPortConnection(chatPort, ok)
    /\ UNCHANGED <<engineVars, storeVars, tasks, initRuns, last, hist, calls, mode,
                   local, rateLimiter, chats>>

\* disconnect: the port is disconnected from this end, which does not run
\* its onDisconnect listener.
Disconnect ==
    /\ chatPort.port # 0
    /\ chatPort' = [chatPort EXCEPT !.ports[chatPort.port] = "closed", !.port = 0,
                                    !.isConnected = FALSE]
    /\ UNCHANGED <<engineVars, storeVars, tasks, initRuns, last, hist, calls, mode,
                   local, rateLimiter, chats>>

NextPort ==
    \/ \E p \in 1..MaxPorts : OnDisconnect(p)
    \/ \E ok \in BOOLEAN : ReconnectTimer(ok)
    \/ \E ok \in BOOLEAN : SendMessage(ok)
    \/ Disconnect

\* The content script after new ChatPortManager(), whose connect returned a
\* port or raised.
SpecPort ==
    /\ index = NewIndex /\ items = <<>> /\ isInitialized = FALSE
    /\ stSources = SrcEmpty /\ stIndexedItems = <<>> /\ stSearchIndex = <<>>
    /\ tasks = [t \in Tasks |-> IdleTask] /\ last = IdleTask
    /\ initRuns = 0 /\ calls = 0 /\ hist = <<>> /\ mode = "port"
    /\ local = [k \in Range(STORAGE_KEYS) |-> <<>>]
    /\ rateLimiter = RateLimiter
    /\ chats = [r \in Requests |-> IdleChat]
    /\ chatPort \in {ChatPortManager(TRUE), ChatPortManager(FALSE)}
    /\ [][NextPort]_vars

\* The ports that are open.
LivePorts == {p \in DOMAIN chatPort.ports : chatPort.ports[p] = "open"}

\* The port the manager refers to is open.
PortIsLive == chatPort.port # 0 /\ chatPort.port \in LivePorts

\* The step is the disconnect event of port p.
DisconnectEventOf(p) ==
    /\ p \in LivePorts
    /\ chatPort'.ports[p] = "closed"
    /\ chatPort'.timers = chatPort.timers + 1

\* C39: at most one port is open, isConnected is true exactly when port
\* refers to an open port, and the disconnect event of another port leaves a
\* connected port and the flag as they are.
C39_OneLivePort ==
    /\ [](Cardinality(LivePorts) <= 1 /\ (chatPort.isConnected <=> PortIsLive))
    /\ [][\A p \in 1..MaxPorts :
             (DisconnectEventOf(p) /\ p # chatPort.port /\ PortIsLive) =>
                 chatPort'.port = chatPort.port /\ chatPort'.isConnected]_vars

====
